---- MODULE Spec2Model ----
(***************************************************************************)
(* RTDB -> Firestore migration script (scripts/migrate-rtdb-to-firestore). *)
(* One run of migrate() is a sequential process: migrateUsers,             *)
(* migrateDevices, migrateDailyReadings, migrateTelegramData,              *)
(* validateMigration, process.exit.  Every await on a store is a point     *)
(* where the store may reject the call.                                    *)
(***************************************************************************)
EXTENDS Integers, Sequences, FiniteSets, TLC

(* ---------------------------------------------------------------------- *)
(* Bounds of the model                                                     *)
(* ---------------------------------------------------------------------- *)
\* store calls (reads, writes, commits) that may be rejected, over all runs
MaxFailures == 1
\* invocations of the script on the same source data
MaxRuns == 2
\* the largest reading count of one device is BatchLimit + MaxOver
MaxOver == 1
MaxCalls == 3
MaxSubs == 3

(* ---------------------------------------------------------------------- *)
(* Program constants                                                       *)
(* ---------------------------------------------------------------------- *)
\* "Commit batch every 500 writes (Firestore limit)"
BatchLimit == 500

UserIds == {"u1", "u2"}
DeviceIds == {"d1", "d2"}
\* enumeration order of the keys of a snapshot
UserOrder == <<"u1", "u2">>
DeviceOrder == <<"d1", "d2">>
UserIdKeyOrder == <<"", "u1", "u2">>
TimestampKeyOrder == <<1, 2, 3>>
ReadingFields == {"current", "energy", "frequency", "power", "power_factor", "voltage"}

(* ---------------------------------------------------------------------- *)
(* JavaScript helpers                                                      *)
(* ---------------------------------------------------------------------- *)
Has(r, f) == f \in DOMAIN r

\* Object.keys(obj) / Object.entries(obj): the keys of obj in enumeration order
ObjectKeys(obj, order) == SelectSeq(order, LAMBDA k : k \in DOMAIN obj)

\* x || 0 on a numeric field: absent (undefined) and 0 both give 0
OrZero(r, f) == IF Has(r, f) /\ r[f] # 0 THEN r[f] ELSE 0

EmptyMap == [k \in {} |-> ""]

Range(s) == {s[i] : i \in 1..Len(s)}

(* ---------------------------------------------------------------------- *)
(* Record transformations                                                  *)
(* ---------------------------------------------------------------------- *)
\* the document migrateUsers writes for one source user
TransformUser(user) ==
    [email |-> user["email"],
     username |-> user["username"],
     devices |-> IF Has(user, "devices") THEN user["devices"] ELSE EmptyMap]

\* the non-empty keys of the user_ids map of a source device
SourceUserIds(device) ==
    IF Has(device, "user_ids") THEN DOMAIN device["user_ids"] \ {""} ELSE {}

\* the order in which the source enumerates the keys of a user_ids map
VARIABLE keyOrder

\* a mutation of UserIdsArray: the empty key is kept
UserIdsArrayUnfiltered(device) ==
    IF Has(device, "user_ids")
    THEN ObjectKeys(device["user_ids"], keyOrder)
    ELSE <<>>

\* Object.keys(device.user_ids).filter(id => id), [] without user_ids
UserIdsArray(device) ==
    IF Has(device, "user_ids")
    THEN SelectSeq(ObjectKeys(device["user_ids"], keyOrder), LAMBDA id : id # "")
    ELSE <<>>

\* a mutation of TransformDevice: isOn written as device.isOn || true
TransformDeviceIsOnOr(device, serverTime) ==
    [name |-> device["name"],
     isOn |-> TRUE,
     energyLimit |-> OrZero(device, "energyLimit"),
     last_updated |-> IF OrZero(device, "last_updated") # 0
                      THEN device["last_updated"] ELSE serverTime,
     user_ids |-> UserIdsArray(device)]

\* a mutation of TransformDevice: last_updated always taken from the server
TransformDeviceAlwaysNow(device, serverTime) ==
    [name |-> device["name"],
     isOn |-> IF Has(device, "isOn") THEN device["isOn"] ELSE TRUE,
     energyLimit |-> OrZero(device, "energyLimit"),
     last_updated |-> serverTime,
     user_ids |-> UserIdsArray(device)]

\* the document migrateDevices writes for one source device; serverTime is
\* what FieldValue.serverTimestamp() resolves to when the write is applied
TransformDevice(device, serverTime) ==
    [name |-> device["name"],
     isOn |-> IF Has(device, "isOn") THEN device["isOn"] ELSE TRUE,
     energyLimit |-> OrZero(device, "energyLimit"),
     last_updated |-> IF OrZero(device, "last_updated") # 0
                      THEN device["last_updated"] ELSE serverTime,
     user_ids |-> UserIdsArray(device)]

\* a mutation of IsEmptyReading: no reading is taken as empty
IsEmptyReadingNever(reading) == FALSE

\* !reading || Object.keys(reading).length === 0
IsEmptyReading(reading) == DOMAIN reading = {}

\* the document batch.set() receives for one non-empty reading
TransformReading(reading) == [f \in ReadingFields |-> OrZero(reading, f)]

\* a mutation of SetDoc: the write replaces the collection, not the document
SetDocDroppingOthers(coll, id, data) == [k \in {id} |-> data]

\* doc(id).set(data): whole-document overwrite, creating the document if needed
SetDoc(coll, id, data) ==
    [k \in DOMAIN coll \cup {id} |-> IF k = id THEN data ELSE coll[k]]

(* ---------------------------------------------------------------------- *)
(* Firestore WriteBatch (firebase-admin), as used through firestore.batch()*)
(* A batch collects operations; commit() marks it committed and submits    *)
(* every collected operation as one atomic request.  Once committed, a     *)
(* batch rejects set() ("Cannot modify a WriteBatch that has been          *)
(* committed."); commit() itself may be called again and submits the same  *)
(* operations again.                                                       *)
(* ---------------------------------------------------------------------- *)
NewBatch == [ops |-> <<>>, committed |-> FALSE]

BatchSetThrows(b) == b.committed

BatchSet(b, id, data) == [b EXCEPT !.ops = Append(@, [id |-> id, data |-> data])]

BatchMarkCommitted(b) == [b EXCEPT !.committed = TRUE]

\* the effect of one successful commit on the sub-collection it addresses:
\* the operations are applied in order, each a whole-document overwrite, so
\* a document holds the data of the last operation addressed to it
ApplyOps(coll, ops) ==
    LET ids == {ops[i].id : i \in 1..Len(ops)}
        Last(k) == CHOOSE i \in 1..Len(ops) :
                      ops[i].id = k /\ \A j \in (i + 1)..Len(ops) : ops[j].id # k
    IN  [k \in DOMAIN coll \cup ids |-> IF k \in ids THEN ops[Last(k)].data ELSE coll[k]]

OpIds(ops) == [i \in 1..Len(ops) |-> ops[i].id]

\* a mutation of BatchFull: the group is committed one write too late
BatchFullLate(count) == count > BatchLimit

\* if (batchCount >= 500)
BatchFull(count) == count >= BatchLimit

(* ---------------------------------------------------------------------- *)
(* State                                                                   *)
(* ---------------------------------------------------------------------- *)
VARIABLES
    srcUsers,       \* rtdb users: userId -> user
    srcDevices,     \* rtdb devices: deviceId -> device
    srcReadings,    \* rtdb readings_daily: deviceId -> (timestamp -> reading)
    srcTelegram,    \* rtdb telegram: active_chats, last_update_id
    dstUsers,       \* firestore user-data
    dstDevices,     \* firestore item-data
    dstDaily,       \* firestore item-data/{id}/daily, per device id
    dstTelegram,    \* firestore telegram/active_chats: <<>> or <<document>>
    pc,             \* position of the script
    idx,            \* entries of the current collection already visited
    migratedCount, errorCount,
    rIdx,           \* entries of the current device's readings already visited
    batch, batchCount, deviceReadingCount, totalReadings, totalDevices,
    usersResult, devicesResult, readingsResult, telegramResult,
    report,         \* what validateMigration printed: <<>> or <<record>>
    isValid,        \* "pending", "passed" or "failed"
    exitCode,       \* -1 while the process runs
    run,            \* number of the current invocation
    now,            \* server time of the current invocation
    failures,       \* rejected store calls so far, over all invocations
    runFailures,    \* rejected store calls of the current invocation
    commits,        \* every batch.commit() issued: run, device, ids, outcome
    history,        \* per finished step, what it left behind
    io              \* store calls of the current invocation, in issue order

\* energy alert check (scripts/test-energy-alerts)
VARIABLES
    apc,                \* position of testEnergyAlerts
    chatIds,            \* the registered targets, as parsed
    aIdx,               \* devices already visited
    tIdx,               \* targets already attempted for the current device
    devicesChecked, devicesOverLimit, alertsSent,
    latestReading,      \* <<>> or <<reading>> of the current device
    deviceDisplayName,
    sends,              \* every sendEnergyAlert call: device, target, message, outcome
    outcomes,           \* per visited device, how its iteration ended
    alertExit,          \* exit code of the check, -1 while it runs
    cycles,             \* per finished check: its send attempts and rejected requests
    timestampOrder      \* the order in which the store enumerates timestamp keys

\* chat discovery (scripts/test-telegram-discovery)
VARIABLES
    dpc,                \* position of testTelegramDiscovery
    lastUpdateId,       \* the cursor as read at the start of the poll
    latestUpdateId,
    updates,            \* the batch getUpdates returned
    uIdx,               \* updates already processed
    newChatsCount,
    welcomes,           \* every sendWelcomeMessage call of the poll: chat, outcome
    cursorWrites,       \* every write of last_update_id of the poll, with uIdx
    contacts,           \* per chat key: time of its first and of its latest contact
    handled,            \* over all polls: every update dealt with, and how
    discExit            \* exit code of the poll, -1 while it runs

\* device service of the application (lib/firebase/firestore)
VARIABLES
    svcCall,            \* <<>> or <<the addDevice / deleteDevice call in progress>>
    svcLog              \* <<>> or <<the call that finished last, with its outcome>>

\* Firestore registry of chats (lib/firebase/telegram-chats), concurrent calls
VARIABLES
    regCalls            \* the calls made so far: what they read, where they are

\* module-level cache of useDevices (hooks/useDevices)
VARIABLES
    cachedDevices,                  \* <<>> for null, else <<list of device ids>>
    activeDeviceSubscription,       \* <<>> for null, else <<subscription>>
    deviceMetadataSubscriptions,    \* device id -> subscription
    subscriberCount,
    consumers,                      \* per component: which cleanup its effect returned
    liveSubs,                       \* subscriptions opened and not unsubscribed
    nextSub,                        \* number of subscriptions opened so far
    fetches                         \* <<>> or <<the fetchDeviceDetails call in progress>>

\* daily readings of a chart (subscribeToDailyReadings of lib/firebase/firestore)
VARIABLES
    dailySubscription,  \* <<>> or <<the subscription: item, maxResults, state>>
    chartReadings       \* what onUpdate received last

srcVars == <<srcUsers, srcDevices, srcReadings, srcTelegram, keyOrder, timestampOrder>>
alertVars == <<apc, chatIds, aIdx, tIdx, devicesChecked, devicesOverLimit, alertsSent,
               latestReading, deviceDisplayName, sends, outcomes, alertExit,
               cycles>>
discVars == <<dpc, lastUpdateId, latestUpdateId, updates, uIdx, newChatsCount, welcomes,
              cursorWrites, contacts, handled, discExit>>
svcVars == <<svcCall, svcLog>>
regVars == <<regCalls>>
cacheVars == <<cachedDevices, activeDeviceSubscription, deviceMetadataSubscriptions,
               subscriberCount, consumers, liveSubs, nextSub, fetches>>
chartVars == <<dailySubscription, chartReadings>>
appVars == <<discVars, svcVars, regVars, cacheVars, chartVars>>
dstVars == <<dstUsers, dstDevices, dstDaily, dstTelegram>>
loopVars == <<idx, migratedCount, errorCount>>
batchVars == <<rIdx, batch, batchCount, deviceReadingCount, totalReadings, totalDevices>>
resultVars == <<usersResult, devicesResult, readingsResult, telegramResult>>
endVars == <<report, isValid, exitCode>>
envVars == <<run, now, failures, runFailures>>
vars == <<srcVars, dstVars, pc, loopVars, batchVars, resultVars, endVars, envVars,
          commits, history, io, alertVars, appVars>>

\* one call on a store: rtdb ref(path).once('value'), firestore doc(path).set(),
\* collection(path).get() or batch.commit() on the documents under path
IoCall(step, store, op, path, ok) ==
    [step |-> step, store |-> store, op |-> op, path |-> path, ok |-> ok]

\* the first k calls of a sequence of awaited calls, the k-th one rejected
RejectedAt(calls, k) ==
    [i \in 1..k |-> IF i = k THEN [calls[i] EXCEPT !.ok = FALSE] ELSE calls[i]]

CanFail == failures < MaxFailures

Fail == /\ CanFail
        /\ failures' = failures + 1
        /\ runFailures' = runFailures + 1
        /\ UNCHANGED <<run, now>>

\* an error escaped to the catch of migrate(): process.exit(1)
Critical ==
    /\ pc' = "exit"
    /\ exitCode' = 1
    /\ UNCHANGED <<report, isValid>>

(* ---------------------------------------------------------------------- *)
(* migrateUsers                                                            *)
(* ---------------------------------------------------------------------- *)
UserKeys == ObjectKeys(srcUsers, UserOrder)

UsersRead ==
    /\ pc = "users.read"
    /\ io' = Append(io, IoCall("users", "rtdb", "read", <<"users">>, TRUE))
    /\ pc' = "users.loop"
    /\ idx' = 0 /\ migratedCount' = 0 /\ errorCount' = 0
    /\ UNCHANGED <<srcVars, alertVars, appVars, dstVars, batchVars, resultVars, endVars, envVars,
                   commits, history>>

UsersReadFail ==
    /\ pc = "users.read"
    /\ io' = Append(io, IoCall("users", "rtdb", "read", <<"users">>, FALSE))
    /\ Fail
    /\ Critical
    /\ UNCHANGED <<srcVars, alertVars, appVars, dstVars, loopVars, batchVars, resultVars, commits, history>>

\* a mutation of UserWrite: the source record is marked as migrated
UserWriteMarking ==
    /\ pc = "users.loop" /\ idx < Len(UserKeys)
    /\ io' = Append(io, IoCall("users", "firestore", "write", <<"user-data", UserKeys[idx + 1]>>, TRUE))
    /\ LET userId == UserKeys[idx + 1] IN
         /\ dstUsers' = SetDoc(dstUsers, userId, TransformUser(srcUsers[userId]))
         /\ srcUsers' = [srcUsers EXCEPT ![userId] = [migrated |-> TRUE] @@ @]
    /\ idx' = idx + 1
    /\ migratedCount' = migratedCount + 1
    /\ UNCHANGED <<srcDevices, srcReadings, srcTelegram, keyOrder, timestampOrder,
                   alertVars, appVars, dstDevices, dstDaily, dstTelegram, pc, errorCount,
                   batchVars, resultVars, endVars, envVars, commits, history>>

UserWrite ==
    /\ pc = "users.loop" /\ idx < Len(UserKeys)
    /\ io' = Append(io, IoCall("users", "firestore", "write", <<"user-data", UserKeys[idx + 1]>>, TRUE))
    /\ LET userId == UserKeys[idx + 1] IN
         dstUsers' = SetDoc(dstUsers, userId, TransformUser(srcUsers[userId]))
    /\ idx' = idx + 1
    /\ migratedCount' = migratedCount + 1
    /\ UNCHANGED <<srcVars, alertVars, appVars, dstDevices, dstDaily, dstTelegram, pc, errorCount,
                   batchVars, resultVars, endVars, envVars, commits, history>>

\* a mutation of UserWriteFail: the rejected write is counted as migrated
UserWriteFailCounted ==
    /\ pc = "users.loop" /\ idx < Len(UserKeys)
    /\ io' = Append(io, IoCall("users", "firestore", "write", <<"user-data", UserKeys[idx + 1]>>, FALSE))
    /\ Fail
    /\ idx' = idx + 1
    /\ migratedCount' = migratedCount + 1
    /\ UNCHANGED <<srcVars, alertVars, appVars, dstVars, pc, errorCount, batchVars, resultVars,
                   endVars, commits, history>>

UserWriteFail ==
    /\ pc = "users.loop" /\ idx < Len(UserKeys)
    /\ io' = Append(io, IoCall("users", "firestore", "write", <<"user-data", UserKeys[idx + 1]>>, FALSE))
    /\ Fail
    /\ idx' = idx + 1
    /\ errorCount' = errorCount + 1
    /\ UNCHANGED <<srcVars, alertVars, appVars, dstVars, pc, migratedCount, batchVars, resultVars,
                   endVars, commits, history>>

\* a mutation of UsersReturn: the readings step is started next
UsersReturnSkipping ==
    /\ pc = "users.loop" /\ idx = Len(UserKeys)
    /\ UNCHANGED io
    /\ usersResult' = <<[migratedCount |-> migratedCount, errorCount |-> errorCount]>>
    /\ pc' = "readings.read"
    /\ UNCHANGED <<srcVars, alertVars, appVars, dstVars, loopVars, batchVars, devicesResult,
                   readingsResult, telegramResult, endVars, envVars, commits, history>>

UsersReturn ==
    /\ pc = "users.loop" /\ idx = Len(UserKeys)
    /\ UNCHANGED io
    /\ usersResult' = <<[migratedCount |-> migratedCount, errorCount |-> errorCount]>>
    /\ pc' = "devices.read"
    /\ UNCHANGED <<srcVars, alertVars, appVars, dstVars, loopVars, batchVars, devicesResult,
                   readingsResult, telegramResult, endVars, envVars, commits, history>>

(* ---------------------------------------------------------------------- *)
(* migrateDevices                                                          *)
(* ---------------------------------------------------------------------- *)
DeviceKeys == ObjectKeys(srcDevices, DeviceOrder)

DevicesRead ==
    /\ pc = "devices.read"
    /\ io' = Append(io, IoCall("devices", "rtdb", "read", <<"devices">>, TRUE))
    /\ pc' = "devices.loop"
    /\ idx' = 0 /\ migratedCount' = 0 /\ errorCount' = 0
    /\ UNCHANGED <<srcVars, alertVars, appVars, dstVars, batchVars, resultVars, endVars, envVars,
                   commits, history>>

DevicesReadFail ==
    /\ pc = "devices.read"
    /\ io' = Append(io, IoCall("devices", "rtdb", "read", <<"devices">>, FALSE))
    /\ Fail
    /\ Critical
    /\ UNCHANGED <<srcVars, alertVars, appVars, dstVars, loopVars, batchVars, resultVars, commits, history>>

DeviceWrite ==
    /\ pc = "devices.loop" /\ idx < Len(DeviceKeys)
    /\ io' = Append(io, IoCall("devices", "firestore", "write", <<"item-data", DeviceKeys[idx + 1]>>, TRUE))
    /\ LET deviceId == DeviceKeys[idx + 1] IN
         dstDevices' = SetDoc(dstDevices, deviceId, TransformDevice(srcDevices[deviceId], now))
    /\ idx' = idx + 1
    /\ migratedCount' = migratedCount + 1
    /\ UNCHANGED <<srcVars, alertVars, appVars, dstUsers, dstDaily, dstTelegram, pc, errorCount,
                   batchVars, resultVars, endVars, envVars, commits, history>>

DeviceWriteFail ==
    /\ pc = "devices.loop" /\ idx < Len(DeviceKeys)
    /\ io' = Append(io, IoCall("devices", "firestore", "write", <<"item-data", DeviceKeys[idx + 1]>>, FALSE))
    /\ Fail
    /\ idx' = idx + 1
    /\ errorCount' = errorCount + 1
    /\ UNCHANGED <<srcVars, alertVars, appVars, dstVars, pc, migratedCount, batchVars, resultVars,
                   endVars, commits, history>>

DevicesReturn ==
    /\ pc = "devices.loop" /\ idx = Len(DeviceKeys)
    /\ UNCHANGED io
    /\ devicesResult' = <<[migratedCount |-> migratedCount, errorCount |-> errorCount]>>
    /\ history' = Append(history, [step |-> "devices", run |-> run,
                                   docs |-> dstDevices,
                                   migratedCount |-> migratedCount,
                                   errorCount |-> errorCount])
    /\ pc' = "readings.read"
    /\ UNCHANGED <<srcVars, alertVars, appVars, dstVars, loopVars, batchVars, usersResult,
                   readingsResult, telegramResult, endVars, envVars, commits>>

(* ---------------------------------------------------------------------- *)
(* migrateDailyReadings                                                    *)
(* ---------------------------------------------------------------------- *)
ReadingKeys == ObjectKeys(srcReadings, DeviceOrder)

\* the device whose readings are being migrated, and its readings in
\* enumeration order (the timestamp of a reading is its position)
CurDevice == ReadingKeys[idx + 1]
ReadingsMap == srcReadings[CurDevice]

ReadingsRead ==
    /\ pc = "readings.read"
    /\ io' = Append(io, IoCall("readings", "rtdb", "read", <<"readings_daily">>, TRUE))
    /\ pc' = "readings.device"
    /\ idx' = 0 /\ errorCount' = 0
    /\ totalReadings' = 0 /\ totalDevices' = 0
    /\ UNCHANGED <<srcVars, alertVars, appVars, dstVars, migratedCount, rIdx, batch, batchCount,
                   deviceReadingCount, resultVars, endVars, envVars, commits, history>>

ReadingsReadFail ==
    /\ pc = "readings.read"
    /\ io' = Append(io, IoCall("readings", "rtdb", "read", <<"readings_daily">>, FALSE))
    /\ Fail
    /\ Critical
    /\ UNCHANGED <<srcVars, alertVars, appVars, dstVars, loopVars, batchVars, resultVars, commits, history>>

DeviceBegin ==
    /\ pc = "readings.device" /\ idx < Len(ReadingKeys)
    /\ UNCHANGED io
    /\ batch' = NewBatch
    /\ batchCount' = 0
    /\ deviceReadingCount' = 0
    /\ rIdx' = 0
    /\ pc' = "readings.loop"
    /\ UNCHANGED <<srcVars, alertVars, appVars, dstVars, loopVars, totalReadings, totalDevices,
                   resultVars, endVars, envVars, commits, history>>

ReadingSkip ==
    /\ pc = "readings.loop" /\ rIdx < Len(ReadingsMap)
    /\ UNCHANGED io
    /\ IsEmptyReading(ReadingsMap[rIdx + 1])
    /\ rIdx' = rIdx + 1
    /\ UNCHANGED <<srcVars, alertVars, appVars, dstVars, pc, loopVars, batch, batchCount,
                   deviceReadingCount, totalReadings, totalDevices, resultVars,
                   endVars, envVars, commits, history>>

ReadingSet ==
    /\ pc = "readings.loop" /\ rIdx < Len(ReadingsMap)
    /\ UNCHANGED io
    /\ ~IsEmptyReading(ReadingsMap[rIdx + 1])
    /\ ~BatchSetThrows(batch)
    /\ batch' = BatchSet(batch, rIdx + 1, TransformReading(ReadingsMap[rIdx + 1]))
    /\ batchCount' = batchCount + 1
    /\ deviceReadingCount' = deviceReadingCount + 1
    /\ rIdx' = rIdx + 1
    /\ pc' = IF BatchFull(batchCount + 1) THEN "readings.commit" ELSE "readings.loop"
    /\ UNCHANGED <<srcVars, alertVars, appVars, dstVars, loopVars, totalReadings, totalDevices,
                   resultVars, endVars, envVars, commits, history>>

\* batch.set() on the batch that was already committed: the error is raised
\* outside every try of migrateDailyReadings
ReadingSetThrows ==
    /\ pc = "readings.loop" /\ rIdx < Len(ReadingsMap)
    /\ UNCHANGED io
    /\ ~IsEmptyReading(ReadingsMap[rIdx + 1])
    /\ BatchSetThrows(batch)
    /\ Critical
    /\ UNCHANGED <<srcVars, alertVars, appVars, dstVars, loopVars, batchVars, resultVars, envVars,
                   commits, history>>

CommitRecord(ok) == [run |-> run, device |-> CurDevice, ids |-> OpIds(batch.ops), ok |-> ok]

Commit ==
    /\ pc = "readings.commit"
    /\ io' = Append(io, IoCall("readings", "firestore", "commit", <<"item-data", CurDevice, "daily">>, TRUE))
    /\ dstDaily' = [dstDaily EXCEPT ![CurDevice] = ApplyOps(@, batch.ops)]
    /\ batch' = BatchMarkCommitted(batch)
    /\ commits' = Append(commits, CommitRecord(TRUE))
    /\ batchCount' = 0
    /\ pc' = "readings.loop"
    /\ UNCHANGED <<srcVars, alertVars, appVars, dstUsers, dstDevices, dstTelegram, loopVars, rIdx,
                   deviceReadingCount, totalReadings, totalDevices, resultVars,
                   endVars, envVars, history>>

CommitFail ==
    /\ pc = "readings.commit"
    /\ io' = Append(io, IoCall("readings", "firestore", "commit", <<"item-data", CurDevice, "daily">>, FALSE))
    /\ Fail
    /\ batch' = BatchMarkCommitted(batch)
    /\ commits' = Append(commits, CommitRecord(FALSE))
    /\ errorCount' = errorCount + 1
    /\ pc' = "readings.loop"
    /\ UNCHANGED <<srcVars, alertVars, appVars, dstVars, idx, migratedCount, rIdx, batchCount,
                   deviceReadingCount, totalReadings, totalDevices, resultVars,
                   endVars, history>>

\* totalReadings += deviceReadingCount; totalDevices++; next device
DeviceEnd ==
    /\ totalReadings' = totalReadings + deviceReadingCount
    /\ totalDevices' = totalDevices + 1
    /\ history' = Append(history, [step |-> "readings.device", run |-> run,
                                   device |-> CurDevice,
                                   count |-> deviceReadingCount])
    /\ idx' = idx + 1
    /\ pc' = "readings.device"

FinalCommit ==
    /\ pc = "readings.loop" /\ rIdx = Len(ReadingsMap)
    /\ io' = Append(io, IoCall("readings", "firestore", "commit", <<"item-data", CurDevice, "daily">>, TRUE))
    /\ batchCount > 0
    /\ dstDaily' = [dstDaily EXCEPT ![CurDevice] = ApplyOps(@, batch.ops)]
    /\ batch' = BatchMarkCommitted(batch)
    /\ commits' = Append(commits, CommitRecord(TRUE))
    /\ DeviceEnd
    /\ UNCHANGED <<srcVars, alertVars, appVars, dstUsers, dstDevices, dstTelegram, migratedCount,
                   errorCount, rIdx, batchCount, deviceReadingCount, resultVars,
                   endVars, envVars>>

FinalCommitFail ==
    /\ pc = "readings.loop" /\ rIdx = Len(ReadingsMap)
    /\ io' = Append(io, IoCall("readings", "firestore", "commit", <<"item-data", CurDevice, "daily">>, FALSE))
    /\ batchCount > 0
    /\ Fail
    /\ batch' = BatchMarkCommitted(batch)
    /\ commits' = Append(commits, CommitRecord(FALSE))
    /\ errorCount' = errorCount + 1
    /\ DeviceEnd
    /\ UNCHANGED <<srcVars, alertVars, appVars, dstVars, migratedCount, rIdx, batchCount,
                   deviceReadingCount, resultVars, endVars>>

NoFinalCommit ==
    /\ pc = "readings.loop" /\ rIdx = Len(ReadingsMap)
    /\ UNCHANGED io
    /\ batchCount = 0
    /\ DeviceEnd
    /\ UNCHANGED <<srcVars, alertVars, appVars, dstVars, migratedCount, errorCount, rIdx, batch,
                   batchCount, deviceReadingCount, resultVars, endVars, envVars,
                   commits>>

ReadingsReturn ==
    /\ pc = "readings.device" /\ idx = Len(ReadingKeys)
    /\ UNCHANGED io
    /\ readingsResult' = <<[totalReadings |-> totalReadings,
                            totalDevices |-> totalDevices,
                            errorCount |-> errorCount]>>
    /\ pc' = "telegram"
    /\ UNCHANGED <<srcVars, alertVars, appVars, dstVars, loopVars, batchVars, usersResult,
                   devicesResult, telegramResult, endVars, envVars, commits, history>>

(* ---------------------------------------------------------------------- *)
(* migrateTelegramData                                                     *)
(* ---------------------------------------------------------------------- *)
\* chatsSnapshot.val() || {}
SourceChats == IF Has(srcTelegram, "active_chats") THEN srcTelegram["active_chats"]
               ELSE EmptyMap

\* a mutation of SourceLastUpdateId: the number of chats is taken instead
SourceLastUpdateIdFromChats == Cardinality(DOMAIN SourceChats)

\* lastUpdateIdSnapshot.val() || 0
SourceLastUpdateId == OrZero(srcTelegram, "last_update_id")

\* the awaited store calls of migrateTelegramData, in order
TelegramCalls ==
    <<IoCall("telegram", "rtdb", "read", <<"telegram", "active_chats">>, TRUE),
      IoCall("telegram", "rtdb", "read", <<"telegram", "last_update_id">>, TRUE),
      IoCall("telegram", "firestore", "write", <<"telegram", "active_chats">>, TRUE)>>

TelegramData ==
    /\ pc = "telegram"
    /\ io' = io \o TelegramCalls
    /\ dstTelegram' = <<[chats |-> SourceChats, last_update_id |-> SourceLastUpdateId]>>
    /\ telegramResult' = <<[chatCount |-> Cardinality(DOMAIN SourceChats), error |-> FALSE]>>
    /\ pc' = "validate"
    /\ UNCHANGED <<srcVars, alertVars, appVars, dstUsers, dstDevices, dstDaily, loopVars, batchVars,
                   usersResult, devicesResult, readingsResult, endVars, envVars,
                   commits, history>>

\* a mutation of TelegramDataFail: the error is raised to migrate()
TelegramDataFailRaised ==
    /\ pc = "telegram"
    /\ \E k \in 1..Len(TelegramCalls) : io' = io \o RejectedAt(TelegramCalls, k)
    /\ Fail
    /\ Critical
    /\ UNCHANGED <<srcVars, alertVars, appVars, dstVars, loopVars, batchVars, resultVars,
                   commits, history>>

\* one of the two reads or the write is rejected: caught inside the function
TelegramDataFail ==
    /\ pc = "telegram"
    /\ \E k \in 1..Len(TelegramCalls) : io' = io \o RejectedAt(TelegramCalls, k)
    /\ Fail
    /\ telegramResult' = <<[chatCount |-> 0, error |-> TRUE]>>
    /\ pc' = "validate"
    /\ UNCHANGED <<srcVars, alertVars, appVars, dstVars, loopVars, batchVars, usersResult,
                   devicesResult, readingsResult, endVars, commits, history>>

(* ---------------------------------------------------------------------- *)
(* validateMigration                                                       *)
(* ---------------------------------------------------------------------- *)
\* Object.keys(rtdbDevices)[0]: <<>> when there is no source device
FirstDeviceId == IF DeviceKeys = <<>> THEN <<>> ELSE <<DeviceKeys[1]>>

\* Object.keys(rtdbReadingsSnapshot.val() || {}).length
RtdbReadingsCount(deviceId) ==
    IF deviceId \in DOMAIN srcReadings THEN Len(srcReadings[deviceId]) ELSE 0

\* a mutation of FirestoreReadingsCount: the count is read from the source
FirestoreReadingsCountFromSource(deviceId) ==
    IF deviceId \in DOMAIN srcReadings THEN Len(srcReadings[deviceId]) ELSE 0

\* firestoreDailySnapshot.size
FirestoreReadingsCount(deviceId) == Cardinality(DOMAIN dstDaily[deviceId])

SampleCheck ==
    IF FirstDeviceId = <<>> THEN <<>>
    ELSE <<[deviceId |-> FirstDeviceId[1],
            rtdbReadingsCount |-> RtdbReadingsCount(FirstDeviceId[1]),
            firestoreReadingsCount |-> FirestoreReadingsCount(FirstDeviceId[1])]>>

ValidationReport ==
    [rtdbUsersCount |-> Cardinality(DOMAIN srcUsers),
     firestoreUsersCount |-> Cardinality(DOMAIN dstUsers),
     rtdbDevicesCount |-> Cardinality(DOMAIN srcDevices),
     firestoreDevicesCount |-> Cardinality(DOMAIN dstDevices),
     sample |-> SampleCheck]

SampleMatches(r) ==
    r.sample = <<>> \/ r.sample[1].rtdbReadingsCount = r.sample[1].firestoreReadingsCount

\* a mutation of IsValid: the sample comparison gates the result
IsValidWithSample(r) ==
    /\ r.rtdbUsersCount = r.firestoreUsersCount
    /\ r.rtdbDevicesCount = r.firestoreDevicesCount
    /\ SampleMatches(r)

\* const isValid = rtdbUsersCount === firestoreUsersCount && ...
IsValid(r) ==
    /\ r.rtdbUsersCount = r.firestoreUsersCount
    /\ r.rtdbDevicesCount = r.firestoreDevicesCount

\* the awaited store calls of validateMigration, in order
ValidateCalls ==
    <<IoCall("validate", "rtdb", "read", <<"users">>, TRUE),
      IoCall("validate", "firestore", "read", <<"user-data">>, TRUE),
      IoCall("validate", "rtdb", "read", <<"devices">>, TRUE),
      IoCall("validate", "firestore", "read", <<"item-data">>, TRUE)>>
    \o (IF FirstDeviceId = <<>> THEN <<>>
        ELSE <<IoCall("validate", "rtdb", "read",
                      <<"readings_daily", FirstDeviceId[1]>>, TRUE),
               IoCall("validate", "firestore", "read",
                      <<"item-data", FirstDeviceId[1], "daily">>, TRUE)>>)

ValidateMigration ==
    /\ pc = "validate"
    /\ io' = io \o ValidateCalls
    /\ report' = <<ValidationReport>>
    /\ isValid' = IF IsValid(ValidationReport) THEN "passed" ELSE "failed"
    /\ pc' = "summary"
    /\ UNCHANGED <<srcVars, alertVars, appVars, dstVars, loopVars, batchVars, resultVars, exitCode,
                   envVars, commits, history>>

\* one of the reads of the Validator is rejected: nothing catches it
ValidateMigrationFail ==
    /\ pc = "validate"
    /\ \E k \in 1..Len(ValidateCalls) : io' = io \o RejectedAt(ValidateCalls, k)
    /\ Fail
    /\ Critical
    /\ UNCHANGED <<srcVars, alertVars, appVars, dstVars, loopVars, batchVars, resultVars, commits, history>>

(* ---------------------------------------------------------------------- *)
(* migrate                                                                 *)
(* ---------------------------------------------------------------------- *)
\* a mutation of ExitStatus: the process always reports success
ExitStatusAlwaysZero(valid) == 0

\* process.exit(isValid ? 0 : 1)
ExitStatus(valid) == IF valid THEN 0 ELSE 1

Exit ==
    /\ pc = "summary"
    /\ UNCHANGED io
    /\ exitCode' = ExitStatus(isValid = "passed")
    /\ pc' = "exit"
    /\ UNCHANGED <<srcVars, alertVars, appVars, dstVars, loopVars, batchVars, resultVars, report,
                   isValid, envVars, commits, history>>

\* the operator runs the script again on the same source data
Rerun ==
    /\ pc = "exit" /\ run < MaxRuns
    /\ io' = <<>>
    /\ history' = Append(history, [step |-> "exit", run |-> run,
                                   exitCode |-> exitCode,
                                   failures |-> runFailures])
    /\ run' = run + 1
    /\ now' = now + 1
    /\ runFailures' = 0
    /\ pc' = "users.read"
    /\ idx' = 0 /\ migratedCount' = 0 /\ errorCount' = 0
    /\ rIdx' = 0 /\ batch' = NewBatch /\ batchCount' = 0
    /\ deviceReadingCount' = 0 /\ totalReadings' = 0 /\ totalDevices' = 0
    /\ usersResult' = <<>> /\ devicesResult' = <<>>
    /\ readingsResult' = <<>> /\ telegramResult' = <<>>
    /\ report' = <<>> /\ isValid' = "pending" /\ exitCode' = -1
    /\ UNCHANGED <<srcVars, alertVars, appVars, dstVars, failures, commits>>

(* ---------------------------------------------------------------------- *)
(* testEnergyAlerts (scripts/test-energy-alerts): one check of every      *)
(* device against its energy limit.  It reads the Realtime Database over  *)
(* REST and posts to the Telegram Bot API.  Energies and limits are        *)
(* counted in hundredths of a kWh.                                         *)
(* ---------------------------------------------------------------------- *)
migVars == <<dstVars, pc, loopVars, batchVars, resultVars, endVars, commits, history, io>>

\* parseInt(id, 10) on the keys the registry is written with
ParseInt(key) ==
    CASE key = "101" -> 101
      [] key = "-202" -> -202
      [] OTHER -> "NaN"

\* Object.keys(activeChats).map((id) => parseInt(id, 10))
ChatKeyOrder == <<"-202", "101">>
ParseChatIds(activeChats) ==
    LET keys == ObjectKeys(activeChats, ChatKeyOrder)
    IN  [i \in 1..Len(keys) |-> ParseInt(keys[i])]

\* x.toFixed(2) of a non-negative amount: <<whole part, two decimals>>
ToFixed2(hundredths) == <<hundredths \div 100, hundredths % 100>>

\* !device.energyLimit || device.energyLimit === 0
NoLimitSet(device) == OrZero(device, "energyLimit") = 0

\* (a, b) => parseInt(b) - parseInt(a), the keys held by their numeric value
CompareTimestamps(a, b) == b - a

\* keys.sort(compare): a stable sort, built by insertion
RECURSIVE SortTimestamps(_)
SortTimestamps(keys) ==
    IF keys = <<>> THEN <<>>
    ELSE LET k == keys[Len(keys)]
             front == SortTimestamps(SubSeq(keys, 1, Len(keys) - 1))
             before == SelectSeq(front, LAMBDA a : CompareTimestamps(a, k) <= 0)
             after == SelectSeq(front, LAMBDA a : CompareTimestamps(a, k) > 0)
         IN  before \o <<k>> \o after

\* a mutation of LatestTimestamp: the first key the store enumerates
LatestTimestampUnsorted(readings) == ObjectKeys(readings, timestampOrder)[1]

\* Object.keys(readings).sort((a, b) => parseInt(b) - parseInt(a))[0]
LatestTimestamp(readings) == SortTimestamps(ObjectKeys(readings, timestampOrder))[1]

\* a mutation of OverLimit: a reading equal to the limit counts as over it
OverLimitInclusive(energy, limit) == energy >= limit

\* latestReading.energy > device.energyLimit
OverLimit(energy, limit) == energy > limit

\* the device the loop of testEnergyAlerts is at
AlertDeviceId == DeviceKeys[aIdx + 1]
AlertDevice == srcDevices[AlertDeviceId]

\* getFirebaseData(`/readings_daily/${deviceId}`): <<>> stands for null
AlertReadings ==
    IF AlertDeviceId \in DOMAIN srcReadings /\ srcReadings[AlertDeviceId] # <<>>
    THEN <<srcReadings[AlertDeviceId]>> ELSE <<>>

AlertLatest == AlertReadings[1][LatestTimestamp(AlertReadings[1])]

\* a mutation of LookupUser: the last user the device enumerates
LookupUserLast ==
    IF Has(AlertDevice, "user_ids")
    THEN LET keys == ObjectKeys(AlertDevice["user_ids"], keyOrder)
         IN  IF keys = <<>> THEN <<>> ELSE <<keys[Len(keys)]>>
    ELSE <<>>

\* the user whose profile is asked for the custom name: Object.keys(user_ids)[0]
LookupUser ==
    IF Has(AlertDevice, "user_ids")
    THEN SubSeq(ObjectKeys(AlertDevice["user_ids"], keyOrder), 1,
                IF DOMAIN AlertDevice["user_ids"] = {} THEN 0 ELSE 1)
    ELSE <<>>

\* userData.devices?.[deviceId], when it is there and not empty
CustomName(userId, deviceId) ==
    IF /\ userId \in DOMAIN srcUsers
       /\ Has(srcUsers[userId], "devices")
       /\ deviceId \in DOMAIN srcUsers[userId]["devices"]
       /\ srcUsers[userId]["devices"][deviceId] # ""
    THEN <<srcUsers[userId]["devices"][deviceId]>> ELSE <<>>

\* the message of sendEnergyAlert and what became of the request
SendRecord(chatId, accepted) ==
    [device |-> AlertDeviceId,
     chatId |-> chatId,
     deviceName |-> deviceDisplayName,
     current |-> ToFixed2(latestReading[1]["energy"]),
     limit |-> ToFixed2(AlertDevice["energyLimit"]),
     overBy |-> ToFixed2(latestReading[1]["energy"] - AlertDevice["energyLimit"]),
     accepted |-> accepted]

\* the iteration of the current device ends: next device
AlertDeviceDone(outcome) ==
    /\ outcomes' = Append(outcomes, [device |-> AlertDeviceId, outcome |-> outcome])
    /\ aIdx' = aIdx + 1
    /\ apc' = "device"

\* return from testEnergyAlerts, or the catch around its body
AlertsEnd(code) ==
    /\ apc' = "exit"
    /\ alertExit' = code

AlertsGetChats ==
    /\ apc = "chats"
    /\ IF Has(srcTelegram, "active_chats")
       THEN /\ chatIds' = ParseChatIds(srcTelegram["active_chats"])
            /\ apc' = "devices"
            /\ UNCHANGED alertExit
       ELSE /\ AlertsEnd(0)
            /\ UNCHANGED chatIds
    /\ UNCHANGED <<srcVars, migVars, appVars, cycles, envVars, aIdx, tIdx, devicesChecked,
                   devicesOverLimit, alertsSent, latestReading, deviceDisplayName,
                   sends, outcomes>>

AlertsGetChatsFail ==
    /\ apc = "chats"
    /\ Fail
    /\ AlertsEnd(1)
    /\ UNCHANGED <<srcVars, migVars, appVars, cycles, chatIds, aIdx, tIdx, devicesChecked,
                   devicesOverLimit, alertsSent, latestReading, deviceDisplayName,
                   sends, outcomes>>

AlertsGetDevices ==
    /\ apc = "devices"
    /\ IF DOMAIN srcDevices # {}
       THEN /\ apc' = "device"
            /\ UNCHANGED alertExit
       ELSE AlertsEnd(0)
    /\ UNCHANGED <<srcVars, migVars, appVars, cycles, envVars, chatIds, aIdx, tIdx, devicesChecked,
                   devicesOverLimit, alertsSent, latestReading, deviceDisplayName,
                   sends, outcomes>>

AlertsGetDevicesFail ==
    /\ apc = "devices"
    /\ Fail
    /\ AlertsEnd(1)
    /\ UNCHANGED <<srcVars, migVars, appVars, cycles, chatIds, aIdx, tIdx, devicesChecked,
                   devicesOverLimit, alertsSent, latestReading, deviceDisplayName,
                   sends, outcomes>>

AlertSkipNoLimit ==
    /\ apc = "device" /\ aIdx < Len(DeviceKeys)
    /\ NoLimitSet(AlertDevice)
    /\ devicesChecked' = devicesChecked + 1
    /\ AlertDeviceDone("no limit")
    /\ UNCHANGED <<srcVars, migVars, appVars, cycles, envVars, chatIds, tIdx, devicesOverLimit,
                   alertsSent, latestReading, deviceDisplayName, sends, alertExit>>

\* the request for the readings of the device is rejected: caught per device
AlertGetReadingsFail ==
    /\ apc = "device" /\ aIdx < Len(DeviceKeys)
    /\ ~NoLimitSet(AlertDevice)
    /\ Fail
    /\ devicesChecked' = devicesChecked + 1
    /\ AlertDeviceDone("readings request failed")
    /\ UNCHANGED <<srcVars, migVars, appVars, cycles, chatIds, tIdx, devicesOverLimit,
                   alertsSent, latestReading, deviceDisplayName, sends, alertExit>>

AlertNoReadings ==
    /\ apc = "device" /\ aIdx < Len(DeviceKeys)
    /\ ~NoLimitSet(AlertDevice)
    /\ AlertReadings = <<>>
    /\ devicesChecked' = devicesChecked + 1
    /\ AlertDeviceDone("no readings")
    /\ UNCHANGED <<srcVars, migVars, appVars, cycles, envVars, chatIds, tIdx, devicesOverLimit,
                   alertsSent, latestReading, deviceDisplayName, sends, alertExit>>

\* latestReading.energy.toFixed(2) on a reading without energy: TypeError,
\* caught per device
AlertReadingThrows ==
    /\ apc = "device" /\ aIdx < Len(DeviceKeys)
    /\ ~NoLimitSet(AlertDevice)
    /\ AlertReadings # <<>>
    /\ ~Has(AlertLatest, "energy")
    /\ devicesChecked' = devicesChecked + 1
    /\ AlertDeviceDone("reading unreadable")
    /\ UNCHANGED <<srcVars, migVars, appVars, cycles, envVars, chatIds, tIdx, devicesOverLimit,
                   alertsSent, latestReading, deviceDisplayName, sends, alertExit>>

AlertWithinLimit ==
    /\ apc = "device" /\ aIdx < Len(DeviceKeys)
    /\ ~NoLimitSet(AlertDevice)
    /\ AlertReadings # <<>>
    /\ Has(AlertLatest, "energy")
    /\ ~OverLimit(AlertLatest["energy"], AlertDevice["energyLimit"])
    /\ devicesChecked' = devicesChecked + 1
    /\ AlertDeviceDone("within limit")
    /\ UNCHANGED <<srcVars, migVars, appVars, cycles, envVars, chatIds, tIdx, devicesOverLimit,
                   alertsSent, latestReading, deviceDisplayName, sends, alertExit>>

\* over the limit: the display name starts as the stored name; with a user
\* on the device the profile of the first one is requested next
AlertOverLimit ==
    /\ apc = "device" /\ aIdx < Len(DeviceKeys)
    /\ ~NoLimitSet(AlertDevice)
    /\ AlertReadings # <<>>
    /\ Has(AlertLatest, "energy")
    /\ OverLimit(AlertLatest["energy"], AlertDevice["energyLimit"])
    /\ devicesChecked' = devicesChecked + 1
    /\ devicesOverLimit' = devicesOverLimit + 1
    /\ latestReading' = <<AlertLatest>>
    /\ deviceDisplayName' = AlertDevice["name"]
    /\ tIdx' = 0
    /\ apc' = IF LookupUser = <<>> THEN "send" ELSE "name"
    /\ UNCHANGED <<srcVars, migVars, appVars, cycles, envVars, chatIds, aIdx, alertsSent, sends,
                   outcomes, alertExit>>

AlertLookupName ==
    /\ apc = "name"
    /\ LET customName == CustomName(LookupUser[1], AlertDeviceId) IN
         deviceDisplayName' = IF customName = <<>> THEN deviceDisplayName
                              ELSE customName[1]
    /\ apc' = "send"
    /\ UNCHANGED <<srcVars, migVars, appVars, cycles, envVars, chatIds, aIdx, tIdx, devicesChecked,
                   devicesOverLimit, alertsSent, latestReading, sends, outcomes,
                   alertExit>>

\* the request for the user's profile is rejected: getFirebaseData throws
\* inside the try of the device, in front of the send loop
AlertLookupNameFail ==
    /\ apc = "name"
    /\ Fail
    /\ AlertDeviceDone("name request failed")
    /\ UNCHANGED <<srcVars, migVars, appVars, cycles, chatIds, tIdx, devicesChecked, devicesOverLimit,
                   alertsSent, latestReading, deviceDisplayName, sends, alertExit>>

\* sendEnergyAlert returned data.ok = true
AlertSendAccepted ==
    /\ apc = "send" /\ tIdx < Len(chatIds)
    /\ sends' = Append(sends, SendRecord(chatIds[tIdx + 1], TRUE))
    /\ alertsSent' = alertsSent + 1
    /\ tIdx' = tIdx + 1
    /\ UNCHANGED <<srcVars, migVars, appVars, cycles, envVars, apc, chatIds, aIdx, devicesChecked,
                   devicesOverLimit, latestReading, deviceDisplayName, outcomes,
                   alertExit>>

\* a mutation of AlertSendRejected: the refused send ends the device
AlertSendRejectedEnding ==
    /\ apc = "send" /\ tIdx < Len(chatIds)
    /\ sends' = Append(sends, SendRecord(chatIds[tIdx + 1], FALSE))
    /\ AlertDeviceDone("send failed")
    /\ UNCHANGED <<srcVars, migVars, appVars, cycles, envVars, chatIds, tIdx, devicesChecked,
                   devicesOverLimit, alertsSent, latestReading, deviceDisplayName,
                   alertExit>>

\* sendEnergyAlert returned false: the request failed or Telegram refused it
AlertSendRejected ==
    /\ apc = "send" /\ tIdx < Len(chatIds)
    /\ sends' = Append(sends, SendRecord(chatIds[tIdx + 1], FALSE))
    /\ tIdx' = tIdx + 1
    /\ UNCHANGED <<srcVars, migVars, appVars, cycles, envVars, apc, chatIds, aIdx, devicesChecked,
                   devicesOverLimit, alertsSent, latestReading, deviceDisplayName,
                   outcomes, alertExit>>

AlertBroadcastDone ==
    /\ apc = "send" /\ tIdx = Len(chatIds)
    /\ AlertDeviceDone("alerted")
    /\ UNCHANGED <<srcVars, migVars, appVars, cycles, envVars, chatIds, tIdx, devicesChecked,
                   devicesOverLimit, alertsSent, latestReading, deviceDisplayName,
                   sends, alertExit>>

\* the summary is printed and the process exits with 0
AlertsSummary ==
    /\ apc = "device" /\ aIdx = Len(DeviceKeys)
    /\ AlertsEnd(0)
    /\ UNCHANGED <<srcVars, migVars, appVars, cycles, envVars, chatIds, aIdx, tIdx, devicesChecked,
                   devicesOverLimit, alertsSent, latestReading, deviceDisplayName,
                   sends, outcomes>>

\* what one finished check did: its send attempts without their outcomes,
\* how each device ended, and the exit code
CycleRecord ==
    [attempts |-> [i \in 1..Len(sends) |->
                      [f \in DOMAIN sends[i] \ {"accepted"} |-> sends[i][f]]],
     outcomes |-> outcomes,
     exit |-> alertExit]

\* a mutation of AlertsRerun: the next check resumes behind the devices
\* the last one visited
AlertsRerunResuming ==
    /\ apc = "exit" /\ run < MaxRuns
    /\ cycles' = Append(cycles, CycleRecord)
    /\ run' = run + 1 /\ runFailures' = 0
    /\ apc' = "chats" /\ chatIds' = <<>> /\ tIdx' = 0
    /\ devicesChecked' = 0 /\ devicesOverLimit' = 0 /\ alertsSent' = 0
    /\ latestReading' = <<>> /\ deviceDisplayName' = ""
    /\ sends' = <<>> /\ outcomes' = <<>> /\ alertExit' = -1
    /\ UNCHANGED <<srcVars, migVars, appVars, now, failures, aIdx>>

\* the script is run again, a new process: every variable of
\* testEnergyAlerts starts from its initial value
AlertsRerun ==
    /\ apc = "exit" /\ run < MaxRuns
    /\ cycles' = Append(cycles, CycleRecord)
    /\ run' = run + 1 /\ runFailures' = 0
    /\ apc' = "chats" /\ chatIds' = <<>> /\ aIdx' = 0 /\ tIdx' = 0
    /\ devicesChecked' = 0 /\ devicesOverLimit' = 0 /\ alertsSent' = 0
    /\ latestReading' = <<>> /\ deviceDisplayName' = ""
    /\ sends' = <<>> /\ outcomes' = <<>> /\ alertExit' = -1
    /\ UNCHANGED <<srcVars, migVars, appVars, now, failures>>

(* ---------------------------------------------------------------------- *)
(* Source data sets                                                        *)
(* ---------------------------------------------------------------------- *)
PlainUser(u) == [email |-> u, username |-> u]
UserWithDevices(u) == [email |-> u, username |-> u, devices |-> [d \in {"d1"} |-> "Lamp"]]

UserDatasets ==
    {[u \in S |-> IF u = "u1" THEN UserWithDevices(u) ELSE PlainUser(u)] : S \in SUBSET UserIds}

BareDevice == [name |-> "plug"]
FullDevice == [name |-> "heater", isOn |-> FALSE, energyLimit |-> 1000, last_updated |-> 7,
               user_ids |-> [k \in {"", "u1", "u2"} |-> TRUE]]
DeviceProfiles == {BareDevice, FullDevice}

DeviceDatasets ==
    {[d \in S |-> IF d = "d1" THEN p ELSE BareDevice] : S \in SUBSET DeviceIds, p \in DeviceProfiles}

EmptyReading == [f \in {} |-> 0]
ReadingBody(t) == [f \in (IF t % 2 = 0 THEN ReadingFields ELSE {"energy", "power"}) |-> t]
ReadingsOf(n, emptyAt) == [t \in 1..n |-> IF t \in emptyAt THEN EmptyReading ELSE ReadingBody(t)]

SmallReadings ==
    {[d \in S |-> IF d = "d1" THEN r ELSE ReadingsOf(1, {})] :
        S \in SUBSET DeviceIds, r \in {ReadingsOf(1, {}), ReadingsOf(3, {2})}}

LargeCounts == BatchLimit..(BatchLimit + MaxOver)

LargeReadings == {[d \in {"d1"} |-> ReadingsOf(n, {})] : n \in LargeCounts}

Chat(c) == [chatId |-> c, username |-> "user", firstName |-> "name",
            lastActive |-> 5, addedAt |-> 3]
TelegramDatasets ==
    {[k \in {} |-> 0],
     [active_chats |-> [c \in {"c1", "c2"} |-> Chat(c)], last_update_id |-> 42]}

\* the migration before its first step
InitMigration ==
    /\ pc = "users.read"
    /\ idx = 0 /\ migratedCount = 0 /\ errorCount = 0
    /\ rIdx = 0 /\ batch = NewBatch /\ batchCount = 0
    /\ deviceReadingCount = 0 /\ totalReadings = 0 /\ totalDevices = 0
    /\ usersResult = <<>> /\ devicesResult = <<>>
    /\ readingsResult = <<>> /\ telegramResult = <<>>
    /\ report = <<>> /\ isValid = "pending" /\ exitCode = -1
    /\ run = 1 /\ now = 100 /\ failures = 0 /\ runFailures = 0
    /\ commits = <<>> /\ history = <<>> /\ io = <<>>

InitProcess ==
    /\ dstUsers = EmptyMap /\ dstDevices = EmptyMap
    /\ dstDaily = [d \in DeviceIds |-> EmptyMap]
    /\ dstTelegram = <<>>
    /\ InitMigration

InitAlertProcess ==
    /\ apc = "chats"
    /\ chatIds = <<>>
    /\ aIdx = 0 /\ tIdx = 0
    /\ devicesChecked = 0 /\ devicesOverLimit = 0 /\ alertsSent = 0
    /\ latestReading = <<>>
    /\ deviceDisplayName = ""
    /\ sends = <<>> /\ outcomes = <<>>
    /\ alertExit = -1
    /\ cycles = <<>>

\* the poll, the device service, the registry calls and the hook at rest
InitChartProcess == dailySubscription = <<>> /\ chartReadings = <<>>

InitDiscoveryProcess ==
    /\ dpc = "cursor"
    /\ lastUpdateId = 0 /\ latestUpdateId = 0
    /\ updates = <<>> /\ uIdx = 0 /\ newChatsCount = 0
    /\ welcomes = <<>> /\ cursorWrites = <<>>
    /\ contacts = EmptyMap
    /\ handled = {}
    /\ discExit = -1

InitServiceProcess == svcCall = <<>> /\ svcLog = <<>>

InitRegistryProcess == regCalls = <<>>

InitCacheProcess ==
    /\ cachedDevices = <<>>
    /\ activeDeviceSubscription = <<>>
    /\ deviceMetadataSubscriptions = EmptyMap
    /\ subscriberCount = 0
    /\ consumers = EmptyMap
    /\ liveSubs = {}
    /\ nextSub = 0
    /\ fetches = <<>>

InitApps ==
    /\ InitDiscoveryProcess /\ InitServiceProcess
    /\ InitRegistryProcess /\ InitCacheProcess

\* every combination of users and devices, with few readings
InitCollections ==
    /\ srcUsers \in UserDatasets
    /\ srcDevices \in DeviceDatasets
    /\ srcReadings = [d \in DeviceIds |-> IF d = "d1" THEN ReadingsOf(3, {2})
                                                      ELSE ReadingsOf(1, {})]
    /\ srcTelegram = [active_chats |-> [c \in {"c1", "c2"} |-> Chat(c)],
                      last_update_id |-> 42]
    /\ keyOrder = UserIdKeyOrder

\* every combination of few readings and registry, with two users and devices
InitReadings ==
    /\ srcUsers = [u \in UserIds |-> PlainUser(u)]
    /\ srcDevices = [d \in DeviceIds |-> IF d = "d1" THEN FullDevice ELSE BareDevice]
    /\ srcReadings \in SmallReadings
    /\ srcTelegram \in TelegramDatasets
    /\ keyOrder = UserIdKeyOrder

\* one user and one device whose readings fill a commit group
InitLarge ==
    /\ srcUsers = [u \in {"u1"} |-> PlainUser(u)]
    /\ srcDevices = [d \in {"d1"} |-> BareDevice]
    /\ srcReadings \in LargeReadings
    /\ srcTelegram = [k \in {} |-> 0]
    /\ keyOrder = UserIdKeyOrder

\* one device or the registry with every shape of its optional fields, and
\* every enumeration order of the keys of user_ids
KeyOrders ==
    {o \in [1..3 -> {"", "u1", "u2"}] : \A i, j \in 1..3 : i # j => o[i] # o[j]}

Absent == [k \in {} |-> 0]
Optional(field, choice) ==
    IF choice = <<>> THEN Absent ELSE [k \in {field} |-> choice[1]]

DeviceShape(isOn, energyLimit, userIds) ==
    [name |-> "fan"] @@ Optional("isOn", isOn) @@ Optional("energyLimit", energyLimit)
    @@ Optional("user_ids", userIds)

UserIdsShapes ==
    {<<>>, <<EmptyMap>>, <<[k \in {"u2"} |-> TRUE]>>, <<[k \in {"", "u1", "u2"} |-> TRUE]>>}

DeviceShapes ==
    {DeviceShape(isOn, limit, <<>>) :
        isOn \in {<<>>, <<TRUE>>, <<FALSE>>}, limit \in {<<>>, <<0>>, <<1000>>}}
    \cup {DeviceShape(<<FALSE>>, <<>>, ids) : ids \in UserIdsShapes}

RegistryShapes ==
    {Optional("active_chats", chats) @@ Optional("last_update_id", last) :
        chats \in {<<>>, <<[c \in {"c1"} |-> Chat(c)]>>},
        last \in {<<>>, <<0>>, <<42>>}}

InitRecords ==
    /\ srcUsers = [u \in {"u1"} |-> PlainUser(u)]
    /\ srcReadings = [d \in {"d1"} |-> ReadingsOf(1, {})]
    /\ \/ /\ srcDevices \in {[d \in DeviceIds |-> IF d = "d1" THEN BareDevice ELSE shape] :
                               shape \in DeviceShapes}
          /\ srcTelegram = Absent
          /\ keyOrder \in IF SourceUserIds(srcDevices["d2"]) = {"u1", "u2"}
                          THEN KeyOrders ELSE {UserIdKeyOrder}
       \/ /\ srcDevices = [d \in {"d1"} |-> BareDevice]
          /\ srcTelegram \in RegistryShapes
          /\ keyOrder = UserIdKeyOrder

Init ==
    /\ InitProcess /\ InitAlertProcess /\ InitChartProcess /\ InitApps
    /\ timestampOrder = TimestampKeyOrder
    /\ (InitCollections \/ InitReadings \/ InitLarge \/ InitRecords)

Next ==
    \/ UsersRead \/ UsersReadFail \/ UserWrite \/ UserWriteFail \/ UsersReturn
    \/ DevicesRead \/ DevicesReadFail \/ DeviceWrite \/ DeviceWriteFail \/ DevicesReturn
    \/ ReadingsRead \/ ReadingsReadFail \/ DeviceBegin
    \/ ReadingSkip \/ ReadingSet \/ ReadingSetThrows
    \/ Commit \/ CommitFail \/ FinalCommit \/ FinalCommitFail \/ NoFinalCommit
    \/ ReadingsReturn
    \/ TelegramData \/ TelegramDataFail
    \/ ValidateMigration \/ ValidateMigrationFail
    \/ Exit \/ Rerun

Spec == Init /\ [][Next]_vars

(* ---------------------------------------------------------------------- *)
(* The energy alert check on its own: the data it reads, and its steps     *)
(* ---------------------------------------------------------------------- *)
\* limits and energies in hundredths of a kWh
AlertLimits == {<<>>, <<0>>, <<100000>>}
AlertEnergies == {99999, 100000, 125050}

AlertReading(energy) == [energy |-> energy, power |-> 5, voltage |-> 220]

\* the readings of one device: none, or an older one and a latest one
AlertReadingSets ==
    {<<>>, <<AlertReading(125050), EmptyReading>>}
    \cup {<<AlertReading(130000), AlertReading(e)>> : e \in AlertEnergies}
    \cup {<<AlertReading(99999), AlertReading(130000), AlertReading(125050)>>}

\* the orders in which the store enumerates the timestamps of a device
TimestampOrders == {TimestampKeyOrder, <<3, 1, 2>>, <<2, 3, 1>>}

AlertUserIds == {<<>>} \cup {<<[k \in ids |-> TRUE]>> : ids \in {{}, {"u1"}, {"u1", "u2"}}}

AlertDevices ==
    {[name |-> "heater"] @@ Optional("energyLimit", limit) @@ Optional("user_ids", ids) :
        limit \in AlertLimits, ids \in AlertUserIds}

\* a user who named device d1, or has no devices
NamingUser(u, name) == [email |-> u, username |-> u, devices |-> [d \in {"d1"} |-> name]]

AlertUsers ==
    {EmptyMap,
     [u \in {"u1"} |-> NamingUser(u, "Lamp")],
     [u \in {"u1"} |-> PlainUser(u)],
     [u \in {"u1", "u2"} |-> NamingUser(u, IF u = "u1" THEN "" ELSE "Fan")],
     [u \in {"u1", "u2"} |-> NamingUser(u, IF u = "u1" THEN "Lamp" ELSE "Fan")]}

AlertRegistries ==
    {Absent} \cup {[active_chats |-> [c \in keys |-> Chat(c)]] :
                      keys \in {{"101"}, {"101", "-202"}}}

InitAlertData ==
    /\ srcUsers \in AlertUsers
    /\ srcDevices \in {[d \in DeviceIds |->
                           IF d = "d1" THEN device
                           ELSE [name |-> "plug", energyLimit |-> 100000]] :
                        device \in AlertDevices} \cup {EmptyMap}
    /\ srcReadings \in {[d \in DeviceIds |-> IF d = "d1" THEN r1 ELSE r2] :
                         r1 \in AlertReadingSets,
                         r2 \in {<<>>, <<AlertReading(125050)>>}}
    /\ srcTelegram \in AlertRegistries
    /\ keyOrder \in IF "d1" \in DOMAIN srcDevices
                       /\ SourceUserIds(srcDevices["d1"]) = {"u1", "u2"}
                    THEN {UserIdKeyOrder, <<"", "u2", "u1">>} ELSE {UserIdKeyOrder}
    /\ timestampOrder \in IF Len(srcReadings["d1"]) >= 2
                          THEN TimestampOrders ELSE {TimestampKeyOrder}

InitAlerts == InitProcess /\ InitAlertProcess /\ InitChartProcess /\ InitApps /\ InitAlertData

NextAlerts ==
    \/ AlertsGetChats \/ AlertsGetChatsFail
    \/ AlertsGetDevices \/ AlertsGetDevicesFail
    \/ AlertSkipNoLimit \/ AlertGetReadingsFail \/ AlertNoReadings
    \/ AlertReadingThrows \/ AlertWithinLimit \/ AlertOverLimit
    \/ AlertLookupName \/ AlertLookupNameFail
    \/ AlertSendAccepted \/ AlertSendRejected \/ AlertBroadcastDone
    \/ AlertsSummary \/ AlertsRerun

SpecAlerts == InitAlerts /\ [][NextAlerts]_vars

TypeOK ==
    /\ pc \in {"users.read", "users.loop", "devices.read", "devices.loop",
               "readings.read", "readings.device", "readings.loop", "readings.commit",
               "telegram", "validate", "summary", "exit"}
    /\ isValid \in {"pending", "passed", "failed"}
    /\ exitCode \in {-1, 0, 1}
    /\ run \in 1..MaxRuns
    /\ failures \in 0..MaxFailures

(* ---------------------------------------------------------------------- *)
(* testTelegramDiscovery (scripts/test-telegram-discovery): one poll of    *)
(* the bot's updates.  Private chats that wrote to the bot are entered in  *)
(* the registry of the Realtime Database and welcomed; the cursor          *)
(* last_update_id is moved behind the updates seen.                        *)
(* ---------------------------------------------------------------------- *)
discFrame == <<srcUsers, srcDevices, srcReadings, keyOrder, timestampOrder,
               migVars, alertVars, chartVars, svcVars, regVars, cacheVars>>

\* `${chatId}` in the path of the registry entry
ChatKey(chatId) ==
    CASE chatId = 101 -> "101"
      [] chatId = -202 -> "-202"

\* x || null on an optional text field
Null == "null"
OrNull(r, f) == IF Has(r, f) /\ r[f] # "" THEN r[f] ELSE Null

\* the chats that write to the bot
PrivateChat == [id |-> 101, type |-> "private", username |-> "ann", first_name |-> "Ann"]
NamelessChat == [id |-> 101, type |-> "private"]
GroupChat == [id |-> -202, type |-> "group"]

\* what an update carries besides its id: a message of a chat, or none
\* (an edited message, a channel post, a callback)
UpdateBodies ==
    {Absent} \cup {[message |-> [chat |-> c]] : c \in {PrivateChat, NamelessChat, GroupChat}}

\* getUpdates(offset): updates behind the cursor, one or two of them, in
\* the order Telegram lists them
UpdateDeltas == {1, 2}
UpdatesAfter(cursor) ==
    {[update_id |-> cursor + k] @@ body : k \in UpdateDeltas, body \in UpdateBodies}
BatchesAfter(cursor) ==
    {<<u>> : u \in UpdatesAfter(cursor)}
    \cup {<<p[1], p[2]>> : p \in {q \in UpdatesAfter(cursor) \X UpdatesAfter(cursor) :
                                      q[1].update_id # q[2].update_id}}

\* const offset = lastUpdateId > 0 ? lastUpdateId + 1 : undefined, and
\* getUpdates puts the offset in the request only when there is one
PollOffset(last) == IF last > 0 THEN <<last + 1>> ELSE <<>>

\* the bot API answers with the pending updates whose id is at least the
\* offset, and with all pending ones when the request has no offset
FirstUpdateId(offset) == IF offset = <<>> THEN 1 ELSE offset[1]

\* an update that was delivered before is the same update when it is
\* delivered again
Redelivered(b) ==
    \A j \in 1..Len(b) : \A h \in handled :
        h.update.update_id = b[j].update_id => h.update = b[j]

\* the entry of handled for an update of this poll
Handled(update, outcome) == [update |-> update, outcome |-> outcome, run |-> run]

CurUpdate == updates[uIdx + 1]

\* a mutation of IsPrivateMessage: every update with a message is taken
IsAnyMessage(update) == Has(update, "message")

\* update.message present and chat.type === 'private'
IsPrivateMessage(update) ==
    Has(update, "message") /\ update["message"]["chat"]["type"] = "private"

\* if (update.update_id > latestUpdateId) latestUpdateId = update.update_id
SeenUpdateId(update) ==
    IF update.update_id > latestUpdateId THEN update.update_id ELSE latestUpdateId

\* the body of the PUT for a chat
RegistryEntry(chat, time) ==
    [chatId |-> chat["id"],
     username |-> OrNull(chat, "username"),
     firstName |-> OrNull(chat, "first_name"),
     lastActive |-> time,
     addedAt |-> time]

\* PUT /telegram/active_chats/<key>.json and PUT /telegram/last_update_id.json
PutChat(telegram, key, entry) ==
    [active_chats |-> (key :> entry) @@ (IF Has(telegram, "active_chats")
                                         THEN telegram["active_chats"] ELSE EmptyMap)]
    @@ telegram
PutCursor(telegram, updateId) == [last_update_id |-> updateId] @@ telegram

\* the chat of key was contacted at time
Contacted(key, time) ==
    (key :> [first |-> IF key \in DOMAIN contacts THEN contacts[key].first ELSE time,
             last |-> time]) @@ contacts

StoredCursor(telegram) == OrZero(telegram, "last_update_id")

DiscEnd(code) ==
    /\ dpc' = "exit"
    /\ discExit' = code

\* const lastUpdateId = (await getFirebaseData('/telegram/last_update_id')) || 0
DiscReadCursor ==
    /\ dpc = "cursor"
    /\ lastUpdateId' = StoredCursor(srcTelegram)
    /\ dpc' = "poll"
    /\ UNCHANGED <<discFrame, srcTelegram, envVars, latestUpdateId, updates, uIdx,
                   newChatsCount, welcomes, cursorWrites, contacts, handled, discExit>>

DiscReadCursorFail ==
    /\ dpc = "cursor"
    /\ Fail
    /\ DiscEnd(1)
    /\ UNCHANGED <<discFrame, srcTelegram, lastUpdateId, latestUpdateId, updates, uIdx,
                   newChatsCount, welcomes, cursorWrites, contacts, handled>>

\* getUpdates returned null (request failed or refused) or no update
DiscNoUpdates ==
    /\ dpc = "poll"
    /\ DiscEnd(0)
    /\ UNCHANGED <<discFrame, srcTelegram, envVars, lastUpdateId, latestUpdateId, updates,
                   uIdx, newChatsCount, welcomes, cursorWrites, contacts, handled>>

DiscPoll ==
    /\ dpc = "poll"
    /\ updates' \in {b \in BatchesAfter(FirstUpdateId(PollOffset(lastUpdateId)) - 1) :
                          Redelivered(b)}
    /\ newChatsCount' = 0
    /\ latestUpdateId' = lastUpdateId
    /\ uIdx' = 0
    /\ dpc' = "update"
    /\ UNCHANGED <<discFrame, srcTelegram, envVars, lastUpdateId, welcomes, cursorWrites,
                   contacts, handled, discExit>>

\* an update without message, or of a chat that is not private
DiscSkipUpdate ==
    /\ dpc = "update" /\ uIdx < Len(updates)
    /\ ~IsPrivateMessage(CurUpdate)
    /\ latestUpdateId' = SeenUpdateId(CurUpdate)
    /\ uIdx' = uIdx + 1
    /\ handled' = handled \cup {Handled(CurUpdate, "skipped")}
    /\ UNCHANGED <<discFrame, srcTelegram, envVars, dpc, lastUpdateId, updates,
                   newChatsCount, welcomes, cursorWrites, contacts, discExit>>

\* the entry of the chat is PUT with the time of this contact
DiscRegister ==
    /\ dpc = "update" /\ uIdx < Len(updates)
    /\ IsPrivateMessage(CurUpdate)
    /\ latestUpdateId' = SeenUpdateId(CurUpdate)
    /\ LET chat == CurUpdate["message"]["chat"] IN
         /\ srcTelegram' = PutChat(srcTelegram, ChatKey(chat["id"]), RegistryEntry(chat, now))
         /\ contacts' = Contacted(ChatKey(chat["id"]), now)
    /\ now' = now + 1
    /\ dpc' = "welcome"
    /\ UNCHANGED <<discFrame, run, failures, runFailures, lastUpdateId, updates, uIdx,
                   newChatsCount, welcomes, cursorWrites, handled, discExit>>

\* the PUT is rejected: caught for this update, the loop goes on
DiscRegisterFail ==
    /\ dpc = "update" /\ uIdx < Len(updates)
    /\ IsPrivateMessage(CurUpdate)
    /\ Fail
    /\ latestUpdateId' = SeenUpdateId(CurUpdate)
    /\ uIdx' = uIdx + 1
    /\ handled' = handled \cup {Handled(CurUpdate, "save failed")}
    /\ UNCHANGED <<discFrame, srcTelegram, dpc, lastUpdateId, updates, newChatsCount,
                   welcomes, cursorWrites, contacts, discExit>>

\* sendWelcomeMessage returned data.ok = true
DiscWelcomeSent ==
    /\ dpc = "welcome"
    /\ welcomes' = Append(welcomes, [update |-> uIdx + 1,
                                     chatId |-> CurUpdate["message"]["chat"]["id"],
                                     sent |-> TRUE])
    /\ newChatsCount' = newChatsCount + 1
    /\ uIdx' = uIdx + 1
    /\ dpc' = "update"
    /\ handled' = handled \cup {Handled(CurUpdate, "welcomed")}
    /\ UNCHANGED <<discFrame, srcTelegram, envVars, lastUpdateId, latestUpdateId, updates,
                   cursorWrites, contacts, discExit>>

\* sendWelcomeMessage returned false
DiscWelcomeRefused ==
    /\ dpc = "welcome"
    /\ welcomes' = Append(welcomes, [update |-> uIdx + 1,
                                     chatId |-> CurUpdate["message"]["chat"]["id"],
                                     sent |-> FALSE])
    /\ uIdx' = uIdx + 1
    /\ dpc' = "update"
    /\ handled' = handled \cup {Handled(CurUpdate, "welcome refused")}
    /\ UNCHANGED <<discFrame, srcTelegram, envVars, lastUpdateId, latestUpdateId, updates,
                   newChatsCount, cursorWrites, contacts, discExit>>

\* a mutation of DiscFinish: the cursor is set to the id of the last update
DiscFinishLastId ==
    /\ dpc = "update" /\ uIdx = Len(updates)
    /\ srcTelegram' = PutCursor(srcTelegram, updates[Len(updates)].update_id)
    /\ cursorWrites' = Append(cursorWrites, [value |-> updates[Len(updates)].update_id,
                                             processed |-> uIdx])
    /\ DiscEnd(0)
    /\ UNCHANGED <<discFrame, envVars, lastUpdateId, latestUpdateId, updates, uIdx,
                   newChatsCount, welcomes, contacts, handled>>

\* behind the loop: the cursor is PUT when it moved, and the poll ends
DiscFinish ==
    /\ dpc = "update" /\ uIdx = Len(updates)
    /\ IF latestUpdateId > lastUpdateId
       THEN /\ srcTelegram' = PutCursor(srcTelegram, latestUpdateId)
            /\ cursorWrites' = Append(cursorWrites, [value |-> latestUpdateId,
                                                     processed |-> uIdx])
       ELSE UNCHANGED <<srcTelegram, cursorWrites>>
    /\ DiscEnd(0)
    /\ UNCHANGED <<discFrame, envVars, lastUpdateId, latestUpdateId, updates, uIdx,
                   newChatsCount, welcomes, contacts, handled>>

\* the PUT of the cursor is rejected: the catch around the poll, exit 1
DiscFinishFail ==
    /\ dpc = "update" /\ uIdx = Len(updates)
    /\ latestUpdateId > lastUpdateId
    /\ Fail
    /\ DiscEnd(1)
    /\ UNCHANGED <<discFrame, srcTelegram, lastUpdateId, latestUpdateId, updates, uIdx,
                   newChatsCount, welcomes, cursorWrites, contacts, handled>>

\* the script is run again, a new process
DiscRerun ==
    /\ dpc = "exit" /\ run < MaxRuns
    /\ run' = run + 1 /\ runFailures' = 0
    /\ dpc' = "cursor"
    /\ lastUpdateId' = 0 /\ latestUpdateId' = 0
    /\ updates' = <<>> /\ uIdx' = 0 /\ newChatsCount' = 0
    /\ welcomes' = <<>> /\ cursorWrites' = <<>>
    /\ discExit' = -1
    /\ UNCHANGED <<discFrame, srcTelegram, now, failures, contacts, handled>>

\* the registry before the first poll: empty, or one chat entered earlier
KnownChat == [chatId |-> 101, username |-> "ann", firstName |-> "Ann",
              lastActive |-> 5, addedAt |-> 3]
DiscoveryRegistries ==
    {Optional("active_chats", chats) @@ Optional("last_update_id", last) :
        chats \in {<<>>, <<[c \in {"101"} |-> KnownChat]>>},
        last \in {<<>>, <<0>>, <<42>>}}

InitDiscovery ==
    /\ InitProcess /\ InitAlertProcess /\ InitChartProcess
    /\ InitServiceProcess /\ InitRegistryProcess /\ InitCacheProcess
    /\ srcUsers = EmptyMap /\ srcDevices = EmptyMap /\ srcReadings = EmptyMap
    /\ keyOrder = UserIdKeyOrder /\ timestampOrder = TimestampKeyOrder
    /\ srcTelegram \in DiscoveryRegistries
    /\ dpc = "cursor"
    /\ lastUpdateId = 0 /\ latestUpdateId = 0
    /\ updates = <<>> /\ uIdx = 0 /\ newChatsCount = 0
    /\ welcomes = <<>> /\ cursorWrites = <<>>
    /\ contacts = IF Has(srcTelegram, "active_chats")
                  THEN [c \in {"101"} |-> [first |-> 3, last |-> 5]] ELSE EmptyMap
    /\ handled = {}
    /\ discExit = -1

NextDiscovery ==
    \/ DiscReadCursor \/ DiscReadCursorFail
    \/ DiscNoUpdates \/ DiscPoll
    \/ DiscSkipUpdate \/ DiscRegister \/ DiscRegisterFail
    \/ DiscWelcomeSent \/ DiscWelcomeRefused
    \/ DiscFinish \/ DiscFinishFail
    \/ DiscRerun

SpecDiscovery == InitDiscovery /\ [][NextDiscovery]_vars

(* ---------------------------------------------------------------------- *)
(* addDevice and deleteDevice (lib/firebase/firestore): the link between a *)
(* user and a device is kept on both documents, user-data/<user>.devices   *)
(* and item-data/<device>.user_ids, by two separate updateDoc calls.       *)
(* ---------------------------------------------------------------------- *)
svcFrame == <<srcVars, dstDaily, dstTelegram, pc, loopVars, batchVars, resultVars, endVars,
              commits, history, io, alertVars, chartVars, discVars, regVars, cacheVars>>

CustomNames == {"Lamp", "Fan"}

\* updateDoc(userRef, {'devices.<itemId>': customName})
SetDeviceName(user, itemId, customName) ==
    [devices |-> (itemId :> customName) @@ (IF Has(user, "devices") THEN user["devices"]
                                            ELSE EmptyMap)] @@ user

\* updateDoc(userRef, {'devices.<itemId>': deleteField()})
DeleteDeviceName(user, itemId) ==
    [devices |-> IF Has(user, "devices")
                 THEN [d \in DOMAIN user["devices"] \ {itemId} |-> user["devices"][d]]
                 ELSE EmptyMap] @@ user

\* a mutation of ArrayUnion: the user id is appended whether present or not
ArrayUnionAppending(item, userId) ==
    LET ids == IF Has(item, "user_ids") THEN item["user_ids"] ELSE <<>>
    IN  [user_ids |-> Append(ids, userId)] @@ item

\* arrayUnion(userId) and arrayRemove(userId) on user_ids
ArrayUnion(item, userId) ==
    LET ids == IF Has(item, "user_ids") THEN item["user_ids"] ELSE <<>>
    IN  [user_ids |-> IF userId \in Range(ids) THEN ids ELSE Append(ids, userId)] @@ item
ArrayRemove(item, userId) ==
    LET ids == IF Has(item, "user_ids") THEN item["user_ids"] ELSE <<>>
    IN  [user_ids |-> SelectSeq(ids, LAMBDA u : u # userId)] @@ item

\* the call returns, or throws the message of the error it caught
SvcReturn(outcome) ==
    /\ svcLog' = <<[op |-> svcCall[1].op, userId |-> svcCall[1].userId,
                    itemId |-> svcCall[1].itemId, step |-> svcCall[1].step,
                    outcome |-> outcome]>>
    /\ svcCall' = <<>>

SvcStep(step) == svcCall' = <<[svcCall[1] EXCEPT !.step = step]>>

\* addDevice(userId, itemId, customName) is called
AddDeviceCall ==
    /\ svcCall = <<>>
    /\ \E u \in UserIds, d \in DeviceIds, n \in CustomNames :
          svcCall' = <<[op |-> "addDevice", userId |-> u, itemId |-> d,
                        customName |-> n, step |-> "check"]>>
    /\ UNCHANGED <<svcFrame, dstUsers, dstDevices, envVars, svcLog>>

\* getDoc(itemRef): the device has to exist
AddDeviceCheck ==
    /\ svcCall # <<>> /\ svcCall[1].op = "addDevice" /\ svcCall[1].step = "check"
    /\ IF svcCall[1].itemId \in DOMAIN dstDevices
       THEN SvcStep("user") /\ UNCHANGED svcLog
       ELSE SvcReturn("Device ID does not exist")
    /\ UNCHANGED <<svcFrame, dstUsers, dstDevices, envVars>>

\* the first updateDoc: the device is entered in the user's devices map
AddDeviceUserWrite ==
    /\ svcCall # <<>> /\ svcCall[1].op = "addDevice" /\ svcCall[1].step = "user"
    /\ IF svcCall[1].userId \in DOMAIN dstUsers
       THEN /\ dstUsers' = [dstUsers EXCEPT ![svcCall[1].userId] =
                               SetDeviceName(@, svcCall[1].itemId, svcCall[1].customName)]
            /\ SvcStep("item") /\ UNCHANGED svcLog
       ELSE /\ SvcReturn("No document to update")
            /\ UNCHANGED dstUsers
    /\ UNCHANGED <<svcFrame, dstDevices, envVars>>

\* the second updateDoc: the user is entered in the device's user_ids
AddDeviceItemWrite ==
    /\ svcCall # <<>> /\ svcCall[1].op = "addDevice" /\ svcCall[1].step = "item"
    /\ dstDevices' = [dstDevices EXCEPT ![svcCall[1].itemId] = ArrayUnion(@, svcCall[1].userId)]
    /\ SvcReturn("ok")
    /\ UNCHANGED <<svcFrame, dstUsers, envVars>>

\* deleteDevice(userId, itemId) is called
DeleteDeviceCall ==
    /\ svcCall = <<>>
    /\ \E u \in UserIds, d \in DeviceIds :
          svcCall' = <<[op |-> "deleteDevice", userId |-> u, itemId |-> d,
                        customName |-> "", step |-> "user"]>>
    /\ UNCHANGED <<svcFrame, dstUsers, dstDevices, envVars, svcLog>>

\* the first updateDoc: the device is taken out of the user's devices map
DeleteDeviceUserWrite ==
    /\ svcCall # <<>> /\ svcCall[1].op = "deleteDevice" /\ svcCall[1].step = "user"
    /\ IF svcCall[1].userId \in DOMAIN dstUsers
       THEN /\ dstUsers' = [dstUsers EXCEPT ![svcCall[1].userId] =
                               DeleteDeviceName(@, svcCall[1].itemId)]
            /\ SvcStep("item") /\ UNCHANGED svcLog
       ELSE /\ SvcReturn("No document to update")
            /\ UNCHANGED dstUsers
    /\ UNCHANGED <<svcFrame, dstDevices, envVars>>

\* the second updateDoc: the user is taken out of the device's user_ids
DeleteDeviceItemWrite ==
    /\ svcCall # <<>> /\ svcCall[1].op = "deleteDevice" /\ svcCall[1].step = "item"
    /\ IF svcCall[1].itemId \in DOMAIN dstDevices
       THEN /\ dstDevices' = [dstDevices EXCEPT ![svcCall[1].itemId] =
                                 ArrayRemove(@, svcCall[1].userId)]
            /\ SvcReturn("ok")
       ELSE /\ SvcReturn("No document to update")
            /\ UNCHANGED dstDevices
    /\ UNCHANGED <<svcFrame, dstUsers, envVars>>

\* the request of the current step is rejected: the catch rethrows
SvcRequestFail ==
    /\ svcCall # <<>>
    /\ Fail
    /\ SvcReturn("request failed")
    /\ UNCHANGED <<svcFrame, dstUsers, dstDevices>>

\* stores in which every link is kept on both sides
ServiceUser(u, devices) == [email |-> u, username |-> u, devices |-> devices]
ServiceItem(users) == [name |-> "plug", user_ids |-> users]

ServiceStores ==
    {<<[u \in us |-> ServiceUser(u, IF u = "u1" /\ linked
                                    THEN [d \in {"d1"} |-> "Lamp"] ELSE EmptyMap)],
       [d \in ds |-> ServiceItem(IF d = "d1" /\ linked THEN <<"u1">> ELSE <<>>)]>> :
        us \in {{"u1"}, {"u1", "u2"}}, ds \in {{"d1"}, {"d1", "d2"}}, linked \in BOOLEAN}

InitService ==
    /\ InitMigration /\ InitAlertProcess /\ InitChartProcess
    /\ \E store \in ServiceStores : dstUsers = store[1] /\ dstDevices = store[2]
    /\ dstDaily = [d \in DeviceIds |-> EmptyMap]
    /\ dstTelegram = <<>>
    /\ InitDiscoveryProcess /\ InitRegistryProcess /\ InitCacheProcess
    /\ srcUsers = EmptyMap /\ srcDevices = EmptyMap /\ srcReadings = EmptyMap
    /\ srcTelegram = Absent
    /\ keyOrder = UserIdKeyOrder /\ timestampOrder = TimestampKeyOrder
    /\ svcCall = <<>> /\ svcLog = <<>>

NextService ==
    \/ AddDeviceCall \/ AddDeviceCheck \/ AddDeviceUserWrite \/ AddDeviceItemWrite
    \/ DeleteDeviceCall \/ DeleteDeviceUserWrite \/ DeleteDeviceItemWrite
    \/ SvcRequestFail

SpecService == InitService /\ [][NextService]_vars

(* ---------------------------------------------------------------------- *)
(* The registry document telegram/active_chats of Firestore                *)
(* (lib/firebase/telegram-chats): saveActiveChatId and setLastUpdateId     *)
(* each read the document and then write it, and run concurrently.         *)
(* ---------------------------------------------------------------------- *)
regFrame == <<srcVars, dstUsers, dstDevices, dstDaily, pc, loopVars, batchVars, resultVars,
              endVars, commits, history, io, alertVars, chartVars, discVars, svcVars, cacheVars>>

RegistryChatIds == {101, -202}
RegistryUpdateIds == {43, 44}

\* the call now at step
RegStep(i, step) == regCalls' = [regCalls EXCEPT ![i].step = step]

\* the entry saveActiveChatId writes: addedAt is the one it read, if any
FirestoreEntry(chatId, time, addedAt) ==
    [chatId |-> chatId, username |-> Null, firstName |-> Null,
     lastActive |-> time,
     addedAt |-> IF addedAt # 0 THEN addedAt ELSE time]

\* chatDoc.data()?.chats?.[chatId]?.addedAt, 0 when there is none
ReadAddedAt(chatId) ==
    IF dstTelegram # <<>> /\ ChatKey(chatId) \in DOMAIN dstTelegram[1]["chats"]
    THEN dstTelegram[1]["chats"][ChatKey(chatId)]["addedAt"] ELSE 0

\* saveActiveChatId(chatId) is called
SaveChatCall ==
    /\ Len(regCalls) < MaxCalls
    /\ \E c \in RegistryChatIds :
          regCalls' = Append(regCalls, [op |-> "saveActiveChatId", arg |-> c,
                                        step |-> "read", exists |-> FALSE, addedAt |-> 0])
    /\ UNCHANGED <<regFrame, dstTelegram, envVars>>

\* setLastUpdateId(updateId) is called
SetLastCall ==
    /\ Len(regCalls) < MaxCalls
    /\ \E id \in RegistryUpdateIds :
          regCalls' = Append(regCalls, [op |-> "setLastUpdateId", arg |-> id,
                                        step |-> "read", exists |-> FALSE, addedAt |-> 0])
    /\ UNCHANGED <<regFrame, dstTelegram, envVars>>

\* const chatDoc = await getDoc(chatDocRef), of either function
RegGetDoc ==
    /\ \E i \in 1..Len(regCalls) :
          /\ regCalls[i].step = "read"
          /\ regCalls' = [regCalls EXCEPT
                            ![i].step = "write",
                            ![i].exists = (dstTelegram # <<>>),
                            ![i].addedAt = IF regCalls[i].op = "saveActiveChatId"
                                           THEN ReadAddedAt(regCalls[i].arg) ELSE 0]
    /\ UNCHANGED <<regFrame, dstTelegram, envVars>>

\* a mutation of SaveChatWrite: the document is always written whole
SaveChatWriteReplacing ==
    /\ \E i \in 1..Len(regCalls) :
          /\ regCalls[i].op = "saveActiveChatId" /\ regCalls[i].step = "write"
          /\ LET key == ChatKey(regCalls[i].arg)
                 entry == FirestoreEntry(regCalls[i].arg, now, regCalls[i].addedAt)
             IN  dstTelegram' = <<[chats |-> (key :> entry), last_update_id |-> 0]>>
          /\ RegStep(i, "done")
    /\ UNCHANGED <<regFrame, envVars>>

\* saveActiveChatId: setDoc of a new document, or updateDoc of chats.<id>
SaveChatWrite ==
    /\ \E i \in 1..Len(regCalls) :
          /\ regCalls[i].op = "saveActiveChatId" /\ regCalls[i].step = "write"
          /\ LET key == ChatKey(regCalls[i].arg)
                 entry == FirestoreEntry(regCalls[i].arg, now, regCalls[i].addedAt)
             IN  dstTelegram' =
                    IF ~regCalls[i].exists
                    THEN <<[chats |-> (key :> entry), last_update_id |-> 0]>>
                    ELSE <<[dstTelegram[1] EXCEPT !.chats = (key :> entry) @@ @]>>
          /\ RegStep(i, "done")
    /\ UNCHANGED <<regFrame, envVars>>

\* setLastUpdateId: setDoc of a new document, or updateDoc of last_update_id
SetLastWrite ==
    /\ \E i \in 1..Len(regCalls) :
          /\ regCalls[i].op = "setLastUpdateId" /\ regCalls[i].step = "write"
          /\ dstTelegram' =
                IF ~regCalls[i].exists
                THEN <<[chats |-> EmptyMap, last_update_id |-> regCalls[i].arg]>>
                ELSE <<[dstTelegram[1] EXCEPT !.last_update_id = regCalls[i].arg]>>
          /\ RegStep(i, "done")
    /\ UNCHANGED <<regFrame, envVars>>

\* the read or the write of a call is rejected: logged and thrown again
RegRequestFail ==
    /\ \E i \in 1..Len(regCalls) :
          /\ regCalls[i].step \in {"read", "write"}
          /\ RegStep(i, "failed")
    /\ Fail
    /\ UNCHANGED <<regFrame, dstTelegram>>

\* no document yet, or the one an earlier poll left
RegistryDocuments ==
    {<<>>, <<[chats |-> [c \in {"101"} |-> KnownChat], last_update_id |-> 42]>>}

InitRegistry ==
    /\ InitMigration /\ InitAlertProcess /\ InitChartProcess
    /\ InitDiscoveryProcess /\ InitServiceProcess /\ InitCacheProcess
    /\ srcUsers = EmptyMap /\ srcDevices = EmptyMap /\ srcReadings = EmptyMap
    /\ srcTelegram = Absent
    /\ keyOrder = UserIdKeyOrder /\ timestampOrder = TimestampKeyOrder
    /\ dstUsers = EmptyMap /\ dstDevices = EmptyMap
    /\ dstDaily = [d \in DeviceIds |-> EmptyMap]
    /\ dstTelegram \in RegistryDocuments
    /\ regCalls = <<>>

NextRegistry ==
    \/ SaveChatCall \/ SetLastCall \/ RegGetDoc
    \/ SaveChatWrite \/ SetLastWrite \/ RegRequestFail

SpecRegistry == InitRegistry /\ [][NextRegistry]_vars

(* ---------------------------------------------------------------------- *)
(* useDevices (hooks/useDevices): the components that use the hook share   *)
(* one subscription to the user's devices and one per device's metadata,   *)
(* held in variables of the module and counted by subscriberCount.         *)
(* ---------------------------------------------------------------------- *)
cacheFrame == <<srcVars, dstVars, pc, loopVars, batchVars, resultVars, endVars, commits,
                history, io, alertVars, chartVars, discVars, svcVars, regVars, envVars>>

Components == {"a", "b"}

\* the subscription opened next: onSnapshot returns its unsubscribe function
NewSubscription(kind, deviceId) == [kind |-> kind, device |-> deviceId, n |-> nextSub + 1]

\* the unsubscribe functions held in deviceMetadataSubscriptions
MetadataSubscriptions(held) == {held[d] : d \in DOMAIN held}

\* the effect runs with a user id: the component is counted, and either
\* reuses the cache or subscribes to the user's devices
Mount ==
    /\ nextSub < MaxSubs
    /\ \E c \in Components :
          /\ c \notin DOMAIN consumers
          /\ subscriberCount' = subscriberCount + 1
          /\ IF activeDeviceSubscription # <<>> /\ cachedDevices # <<>>
             THEN /\ consumers' = (c :> "reuser") @@ consumers
                  /\ UNCHANGED <<activeDeviceSubscription, liveSubs, nextSub>>
             ELSE /\ consumers' = (c :> "creator") @@ consumers
                  /\ activeDeviceSubscription' = <<NewSubscription("user", "")>>
                  /\ liveSubs' = liveSubs \cup {NewSubscription("user", "")}
                  /\ nextSub' = nextSub + 1
    /\ UNCHANGED <<cacheFrame, cachedDevices, deviceMetadataSubscriptions, fetches>>

\* a live subscription to the user's devices delivers the device map:
\* fetchDeviceDetails drops the metadata subscriptions of devices that are
\* gone and runs up to its first await; with no device it runs to its end
DevicesSnapshot ==
    /\ fetches = <<>> /\ nextSub < MaxSubs
    /\ \E sub \in liveSubs : sub.kind = "user"
    /\ \E ids \in SUBSET DeviceIds :
          LET deviceIds == SelectSeq(DeviceOrder, LAMBDA d : d \in ids)
              gone == DOMAIN deviceMetadataSubscriptions \ ids
          IN  /\ liveSubs' = liveSubs \ {deviceMetadataSubscriptions[d] : d \in gone}
              /\ deviceMetadataSubscriptions' =
                    [d \in DOMAIN deviceMetadataSubscriptions \ gone |->
                        deviceMetadataSubscriptions[d]]
              /\ IF deviceIds = <<>>
                 THEN cachedDevices' = << <<>> >> /\ UNCHANGED fetches
                 ELSE /\ fetches' = <<[deviceIds |-> deviceIds, done |-> 0,
                                       deviceDetails |-> <<>>]>>
                      /\ UNCHANGED cachedDevices
    /\ UNCHANGED <<cacheFrame, activeDeviceSubscription, subscriberCount, consumers, nextSub>>

\* getDeviceMetadata answered: the device is added to the details and its
\* metadata is subscribed to unless a subscription is held for it
FetchDevice ==
    /\ fetches # <<>> /\ fetches[1].done < Len(fetches[1].deviceIds)
    /\ LET deviceId == fetches[1].deviceIds[fetches[1].done + 1] IN
         /\ fetches' = <<[fetches[1] EXCEPT !.done = @ + 1,
                                            !.deviceDetails = Append(@, deviceId)]>>
         /\ IF deviceId \in DOMAIN deviceMetadataSubscriptions
            THEN UNCHANGED <<deviceMetadataSubscriptions, liveSubs, nextSub>>
            ELSE /\ deviceMetadataSubscriptions' =
                       (deviceId :> NewSubscription("metadata", deviceId))
                       @@ deviceMetadataSubscriptions
                 /\ liveSubs' = liveSubs \cup {NewSubscription("metadata", deviceId)}
                 /\ nextSub' = nextSub + 1
    /\ UNCHANGED <<cacheFrame, cachedDevices, activeDeviceSubscription, subscriberCount,
                   consumers>>

\* getDeviceMetadata threw: logged, the device is left out
FetchDeviceFail ==
    /\ fetches # <<>> /\ fetches[1].done < Len(fetches[1].deviceIds)
    /\ Fail
    /\ fetches' = <<[fetches[1] EXCEPT !.done = @ + 1]>>
    /\ UNCHANGED <<srcVars, dstVars, pc, loopVars, batchVars, resultVars, endVars, commits,
                   history, io, alertVars, chartVars, discVars, svcVars, regVars,
                   cachedDevices, activeDeviceSubscription, deviceMetadataSubscriptions,
                   subscriberCount, consumers, liveSubs, nextSub>>

\* behind the loop: cachedDevices = deviceDetails
FetchDone ==
    /\ fetches # <<>> /\ fetches[1].done = Len(fetches[1].deviceIds)
    /\ cachedDevices' = <<fetches[1].deviceDetails>>
    /\ fetches' = <<>>
    /\ UNCHANGED <<cacheFrame, activeDeviceSubscription, deviceMetadataSubscriptions,
                   subscriberCount, consumers, liveSubs, nextSub>>

\* the cleanup of a component that subscribed
UnmountCreator ==
    /\ \E c \in DOMAIN consumers :
          /\ consumers[c] = "creator"
          /\ consumers' = [k \in DOMAIN consumers \ {c} |-> consumers[k]]
    /\ subscriberCount' = subscriberCount - 1
    /\ IF subscriberCount' = 0
       THEN /\ liveSubs' = (liveSubs \ Range(activeDeviceSubscription))
                              \ MetadataSubscriptions(deviceMetadataSubscriptions)
            /\ activeDeviceSubscription' = <<>>
            /\ deviceMetadataSubscriptions' = EmptyMap
            /\ cachedDevices' = <<>>
       ELSE UNCHANGED <<liveSubs, activeDeviceSubscription, deviceMetadataSubscriptions,
                        cachedDevices>>
    /\ UNCHANGED <<cacheFrame, nextSub, fetches>>

\* the cleanup of a component that reused the cache
UnmountReuser ==
    /\ \E c \in DOMAIN consumers :
          /\ consumers[c] = "reuser"
          /\ consumers' = [k \in DOMAIN consumers \ {c} |-> consumers[k]]
    /\ subscriberCount' = subscriberCount - 1
    /\ IF subscriberCount' = 0 /\ activeDeviceSubscription # <<>>
       THEN /\ liveSubs' = liveSubs \ Range(activeDeviceSubscription)
            /\ activeDeviceSubscription' = <<>>
            /\ cachedDevices' = <<>>
       ELSE UNCHANGED <<liveSubs, activeDeviceSubscription, cachedDevices>>
    /\ UNCHANGED <<cacheFrame, deviceMetadataSubscriptions, nextSub, fetches>>

InitCache ==
    /\ InitProcess /\ InitAlertProcess /\ InitChartProcess
    /\ InitDiscoveryProcess /\ InitServiceProcess /\ InitRegistryProcess
    /\ srcUsers = EmptyMap /\ srcDevices = EmptyMap /\ srcReadings = EmptyMap
    /\ srcTelegram = Absent
    /\ keyOrder = UserIdKeyOrder /\ timestampOrder = TimestampKeyOrder
    /\ InitCacheProcess

NextCache ==
    \/ Mount \/ DevicesSnapshot
    \/ FetchDevice \/ FetchDeviceFail \/ FetchDone
    \/ UnmountCreator \/ UnmountReuser

SpecCache == InitCache /\ [][NextCache]_vars

(* ---------------------------------------------------------------------- *)
(* toggleDevice and setEnergyLimit of useDevices: the value is written to  *)
(* item-data/<device> of Firestore and then to devices/<device> of the     *)
(* Realtime Database; toggleDevice then updates the cached device.         *)
(* ---------------------------------------------------------------------- *)
dualFrame == <<srcUsers, srcReadings, srcTelegram, keyOrder, timestampOrder,
               dstUsers, dstDaily, dstTelegram, pc, loopVars, batchVars, resultVars,
               endVars, commits, history, io, alertVars, chartVars, discVars, regVars,
               activeDeviceSubscription, deviceMetadataSubscriptions, subscriberCount,
               consumers, liveSubs, nextSub, fetches>>

LimitChoices == {0, 1000}

\* the field a call writes
DualField(op) == IF op = "toggleDevice" THEN "isOn" ELSE "energyLimit"

\* updateDoc(itemRef, {field: value}) and set(ref(db, devices/<id>/<field>), value)
SetField(record, field, value) == (field :> value) @@ record

\* cachedDevices.map(device => device.id === deviceId ? {...device, ...changes} : device)
MapCached(deviceId, changes) ==
    [i \in 1..Len(cachedDevices[1]) |->
        IF cachedDevices[1][i].id = deviceId THEN changes @@ cachedDevices[1][i]
        ELSE cachedDevices[1][i]]

\* toggleDevice(deviceId, newState) of the hook is called
ToggleDeviceCall ==
    /\ svcCall = <<>>
    /\ \E d \in DeviceIds, newState \in BOOLEAN :
          svcCall' = <<[op |-> "toggleDevice", userId |-> "", itemId |-> d,
                        value |-> newState, step |-> "firestore"]>>
    /\ UNCHANGED <<dualFrame, srcDevices, dstDevices, cachedDevices, envVars, svcLog>>

\* setEnergyLimit(deviceId, limit) of the hook is called
SetEnergyLimitCall ==
    /\ svcCall = <<>>
    /\ \E d \in DeviceIds, limit \in LimitChoices :
          svcCall' = <<[op |-> "setEnergyLimit", userId |-> "", itemId |-> d,
                        value |-> limit, step |-> "firestore"]>>
    /\ UNCHANGED <<dualFrame, srcDevices, dstDevices, cachedDevices, envVars, svcLog>>

\* await toggleDeviceFS / setEnergyLimitFS: updateDoc of the one field
DualFirestoreWrite ==
    /\ svcCall # <<>> /\ svcCall[1].step = "firestore"
    /\ IF svcCall[1].itemId \in DOMAIN dstDevices
       THEN /\ dstDevices' = [dstDevices EXCEPT ![svcCall[1].itemId] =
                                 SetField(@, DualField(svcCall[1].op), svcCall[1].value)]
            /\ SvcStep("rtdb") /\ UNCHANGED svcLog
       ELSE /\ SvcReturn("No document to update")
            /\ UNCHANGED dstDevices
    /\ UNCHANGED <<dualFrame, srcDevices, cachedDevices, envVars>>

\* await toggleDeviceRTDB / setEnergyLimitRTDB, and behind it the update of
\* the cached device by toggleDevice
DualRtdbWrite ==
    /\ svcCall # <<>> /\ svcCall[1].step = "rtdb"
    /\ srcDevices' =
          (svcCall[1].itemId :>
              SetField(IF svcCall[1].itemId \in DOMAIN srcDevices
                       THEN srcDevices[svcCall[1].itemId] ELSE EmptyMap,
                       DualField(svcCall[1].op), svcCall[1].value)) @@ srcDevices
    /\ cachedDevices' =
          IF svcCall[1].op = "toggleDevice" /\ cachedDevices # <<>>
          THEN <<MapCached(svcCall[1].itemId, [isOn |-> svcCall[1].value])>>
          ELSE cachedDevices
    /\ SvcReturn("ok")
    /\ UNCHANGED <<dualFrame, dstDevices, envVars>>

\* the listener of the device's metadata is given the Firestore document
\* after it changed, and updates the cached device
MetadataChanged ==
    /\ cachedDevices # <<>>
    /\ \E d \in DOMAIN dstDevices \cap DOMAIN deviceMetadataSubscriptions :
          /\ cachedDevices' =
                <<MapCached(d, [isOn |-> dstDevices[d]["isOn"],
                                energyLimit |-> dstDevices[d]["energyLimit"]])>>
          /\ cachedDevices' # cachedDevices
    /\ UNCHANGED <<dualFrame, srcDevices, dstDevices, envVars, svcCall, svcLog>>

\* a subscription the hook opened while a component mounted and fetched
MountedSubscription(kind, deviceId, n) == [kind |-> kind, device |-> deviceId, n |-> n]

\* both stores hold the same isOn and energyLimit for both devices; no
\* component uses the hook yet, or one has mounted and the devices are cached
InitDual ==
    /\ InitMigration /\ InitAlertProcess /\ InitChartProcess
    /\ InitDiscoveryProcess /\ InitServiceProcess /\ InitRegistryProcess
    /\ srcUsers = EmptyMap /\ srcReadings = EmptyMap /\ srcTelegram = Absent
    /\ keyOrder = UserIdKeyOrder /\ timestampOrder = TimestampKeyOrder
    /\ dstUsers = EmptyMap
    /\ dstDaily = [d \in DeviceIds |-> EmptyMap]
    /\ dstTelegram = <<>>
    /\ \E on \in [DeviceIds -> BOOLEAN], limit \in [DeviceIds -> LimitChoices] :
          /\ srcDevices = [d \in DeviceIds |->
                              [name |-> "plug", isOn |-> on[d], energyLimit |-> limit[d]]]
          /\ dstDevices = [d \in DeviceIds |->
                              [name |-> "plug", isOn |-> on[d], energyLimit |-> limit[d],
                               user_ids |-> <<"u1">>]]
          /\ \/ InitCacheProcess
             \/ /\ cachedDevices =
                      <<[i \in 1..Len(DeviceOrder) |->
                            [id |-> DeviceOrder[i], isOn |-> on[DeviceOrder[i]],
                             energyLimit |-> limit[DeviceOrder[i]]]]>>
                /\ activeDeviceSubscription = <<MountedSubscription("user", "", 1)>>
                /\ deviceMetadataSubscriptions =
                      [d \in DeviceIds |->
                          MountedSubscription("metadata", d, IF d = DeviceOrder[1] THEN 2 ELSE 3)]
                /\ subscriberCount = 1
                /\ consumers = [c \in {"a"} |-> "creator"]
                /\ liveSubs = {MountedSubscription("user", "", 1)}
                                \cup {deviceMetadataSubscriptions[d] : d \in DeviceIds}
                /\ nextSub = 3
                /\ fetches = <<>>

NextDual ==
    \/ ToggleDeviceCall \/ SetEnergyLimitCall
    \/ DualFirestoreWrite \/ DualRtdbWrite
    \/ SvcRequestFail
    \/ MetadataChanged

SpecDual == InitDual /\ [][NextDual]_vars

(* ---------------------------------------------------------------------- *)
(* removeInactiveChats and getAllActiveChatIds on the Firestore registry   *)
(* (lib/firebase/telegram-chats), called one after the other while time    *)
(* passes.                                                                 *)
(* ---------------------------------------------------------------------- *)
MsPerDay == 86400000
MaxDays == 2
\* the daysOld of a call: 20 days reach behind every time of the model, as
\* the default of 90 does
DaysOldChoices == {0, 1, 20}

\* every call made so far has returned
NoCallRunning == \A i \in 1..Len(regCalls) : regCalls[i].step = "done"

\* Date.now() - daysOld * 24 * 60 * 60 * 1000
CutoffTime(daysOld) == now - daysOld * MsPerDay

\* the keys of chats for which chat.lastActive < cutoffTime
InactiveKeys(chats, cutoffTime) ==
    {k \in DOMAIN chats : chats[k]["lastActive"] < cutoffTime}

\* the value null stored under a chat key
NullEntry == [null |-> TRUE]
IsNullEntry(chat) == DOMAIN chat = {"null"}

\* updateDoc(chatDocRef, updates) with updates['chats.<key>'] = null
SetChatsNull(document, keys) ==
    [document EXCEPT !.chats = [k \in DOMAIN @ |-> IF k \in keys THEN NullEntry ELSE @[k]]]

\* a day goes by
TimePasses ==
    /\ now < MaxDays * MsPerDay
    /\ now' = now + MsPerDay
    /\ UNCHANGED <<regFrame, dstTelegram, regCalls, run, failures, runFailures>>

\* removeInactiveChats(daysOld) is called
RemoveInactiveCall ==
    /\ NoCallRunning /\ Len(regCalls) < MaxCalls
    /\ \E daysOld \in DaysOldChoices :
          regCalls' = Append(regCalls, [op |-> "removeInactiveChats", arg |-> daysOld,
                                        step |-> "read", updates |-> {}, result |-> 0])
    /\ UNCHANGED <<regFrame, dstTelegram, envVars>>

\* getDoc and the loop over the chats: without document the call returns 0;
\* chat.lastActive of an entry that is null throws, which the catch turns
\* into the result 0; with no inactive chat the call returns 0
RemoveInactiveRead ==
    /\ \E i \in 1..Len(regCalls) :
          /\ regCalls[i].op = "removeInactiveChats" /\ regCalls[i].step = "read"
          /\ IF dstTelegram = <<>>
             THEN RegStep(i, "done")
             ELSE LET chats == dstTelegram[1]["chats"] IN
                  IF \E k \in DOMAIN chats : IsNullEntry(chats[k])
                  THEN RegStep(i, "done")
                  ELSE LET keys == InactiveKeys(chats, CutoffTime(regCalls[i].arg)) IN
                       regCalls' = [regCalls EXCEPT
                                       ![i].step = IF keys = {} THEN "done" ELSE "write",
                                       ![i].updates = keys,
                                       ![i].result = Cardinality(keys)]
    /\ UNCHANGED <<regFrame, dstTelegram, envVars>>

\* if (removedCount > 0) await updateDoc(chatDocRef, updates)
RemoveInactiveWrite ==
    /\ \E i \in 1..Len(regCalls) :
          /\ regCalls[i].op = "removeInactiveChats" /\ regCalls[i].step = "write"
          /\ dstTelegram' = <<SetChatsNull(dstTelegram[1], regCalls[i].updates)>>
          /\ RegStep(i, "done")
    /\ UNCHANGED <<regFrame, envVars>>

\* the read or the write is rejected: the catch logs and returns 0
RemoveInactiveFail ==
    /\ \E i \in 1..Len(regCalls) :
          /\ regCalls[i].op = "removeInactiveChats"
          /\ regCalls[i].step \in {"read", "write"}
          /\ regCalls' = [regCalls EXCEPT ![i].step = "done", ![i].updates = {},
                                          ![i].result = 0]
    /\ Fail
    /\ UNCHANGED <<regFrame, dstTelegram>>

\* getAllActiveChatIds(): the parsed keys of chats, [] without document and
\* when getDoc is rejected
GetAllChatIds ==
    /\ NoCallRunning /\ Len(regCalls) < MaxCalls
    /\ \/ /\ regCalls' = Append(regCalls,
                [op |-> "getAllActiveChatIds", arg |-> 0, step |-> "done", updates |-> {},
                 result |-> IF dstTelegram = <<>> THEN <<>>
                            ELSE ParseChatIds(dstTelegram[1]["chats"])])
          /\ UNCHANGED envVars
       \/ /\ regCalls' = Append(regCalls,
                [op |-> "getAllActiveChatIds", arg |-> 0, step |-> "done", updates |-> {},
                 result |-> <<>>])
          /\ Fail
    /\ UNCHANGED <<regFrame, dstTelegram>>

\* no document, or chat 101 last active at time 5 with or without chat -202
\* last active at time 100
RecentChat == [chatId |-> -202, username |-> Null, firstName |-> Null,
               lastActive |-> 100, addedAt |-> 100]
CleanupDocuments ==
    {<<>>,
     <<[chats |-> [c \in {"101"} |-> KnownChat], last_update_id |-> 42]>>,
     <<[chats |-> [c \in {"101", "-202"} |-> IF c = "101" THEN KnownChat ELSE RecentChat],
        last_update_id |-> 42]>>}

InitCleanup ==
    /\ InitMigration /\ InitAlertProcess /\ InitChartProcess
    /\ InitDiscoveryProcess /\ InitServiceProcess /\ InitCacheProcess
    /\ srcUsers = EmptyMap /\ srcDevices = EmptyMap /\ srcReadings = EmptyMap
    /\ srcTelegram = Absent
    /\ keyOrder = UserIdKeyOrder /\ timestampOrder = TimestampKeyOrder
    /\ dstUsers = EmptyMap /\ dstDevices = EmptyMap
    /\ dstDaily = [d \in DeviceIds |-> EmptyMap]
    /\ dstTelegram \in CleanupDocuments
    /\ regCalls = <<>>

NextCleanup ==
    \/ TimePasses
    \/ RemoveInactiveCall \/ RemoveInactiveRead \/ RemoveInactiveWrite
    \/ RemoveInactiveFail
    \/ GetAllChatIds

SpecCleanup == InitCleanup /\ [][NextCleanup]_vars

(* ---------------------------------------------------------------------- *)
(* subscribeToDailyReadings (lib/firebase/firestore): the listener on      *)
(* item-data/{itemId}/daily of a chart, while readings are written.         *)
(* Document ids are strings of decimal digits, held as their digits.        *)
(* ---------------------------------------------------------------------- *)
chartFrame == <<srcVars, dstUsers, dstDevices, dstTelegram, pc, loopVars, batchVars,
                resultVars, endVars, commits, history, io, alertVars, discVars, svcVars,
                regVars, cacheVars>>

\* the timestamps readings are written at: ids of one width, as the
\* millisecond timestamps of one era are
ChartTimestamps == {<<1, 9>>, <<2, 0>>, <<2, 1>>, <<3, 0>>}
MaxResultsChoices == {1, 2, 3}

\* a < b on strings: by the first position at which they differ, a proper
\* prefix being the smaller
RECURSIVE StringLess(_, _)
StringLess(a, b) ==
    IF b = <<>> THEN FALSE
    ELSE IF a = <<>> THEN TRUE
    ELSE IF a[1] # b[1] THEN a[1] < b[1]
    ELSE StringLess(Tail(a), Tail(b))

\* a mutation of CompareReadings: ascending order of the ids
CompareReadingsAscending(a, b) ==
    IF StringLess(a.id, b.id) THEN -1 ELSE IF StringLess(b.id, a.id) THEN 1 ELSE 0

\* if (a.id > b.id) return -1; if (a.id < b.id) return 1; return 0
CompareReadings(a, b) ==
    IF StringLess(b.id, a.id) THEN -1 ELSE IF StringLess(a.id, b.id) THEN 1 ELSE 0

\* readings.sort(compare): a stable sort, built by insertion
RECURSIVE SortReadings(_)
SortReadings(readings) ==
    IF readings = <<>> THEN <<>>
    ELSE LET r == readings[Len(readings)]
             front == SortReadings(SubSeq(readings, 1, Len(readings) - 1))
             before == SelectSeq(front, LAMBDA a : CompareReadings(a, r) <= 0)
             after == SelectSeq(front, LAMBDA a : CompareReadings(a, r) > 0)
         IN  before \o <<r>> \o after

\* readings.slice(0, maxResults)
SliceFront(readings, maxResults) ==
    SubSeq(readings, 1, IF maxResults < Len(readings) THEN maxResults ELSE Len(readings))

\* readings.reverse()
Reversed(readings) == [i \in 1..Len(readings) |-> readings[Len(readings) + 1 - i]]

\* { id: doc.id, ...doc.data() }: a field id of the data would replace the id
ChartReading(id, data) ==
    [f \in {"id"} \cup DOMAIN data |-> IF f \in DOMAIN data THEN data[f] ELSE id]

\* the document a reading written at timestamp id holds
DailyDocument(id) ==
    [f \in ReadingFields |-> IF f = "energy" THEN 10 * id[1] + id[2] ELSE 0]

\* the orders in which a snapshot can enumerate the documents of a collection
SnapshotOrders(collection) ==
    {order \in [1..Cardinality(DOMAIN collection) -> DOMAIN collection] :
        \A i, j \in DOMAIN order : i # j => order[i] # order[j]}

\* the snapshot callback up to the argument of onUpdate
LimitedReadings(collection, order, maxResults) ==
    LET readings == [i \in DOMAIN order |-> ChartReading(order[i], collection[order[i]])]
    IN  Reversed(SliceFront(SortReadings(readings), maxResults))

\* subscribeToDailyReadings(itemId, maxResults, onUpdate, onError)
SubscribeToDailyReadings ==
    /\ dailySubscription = <<>>
    /\ \E itemId \in DeviceIds, maxResults \in MaxResultsChoices :
          dailySubscription' = <<[item |-> itemId, maxResults |-> maxResults,
                                  state |-> "pending"]>>
    /\ UNCHANGED <<chartFrame, dstDaily, chartReadings, envVars>>

\* the listener is given a snapshot of the collection and calls onUpdate
DailySnapshot ==
    /\ dailySubscription # <<>> /\ dailySubscription[1].state = "pending"
    /\ \E order \in SnapshotOrders(dstDaily[dailySubscription[1].item]) :
          chartReadings' = LimitedReadings(dstDaily[dailySubscription[1].item], order,
                                           dailySubscription[1].maxResults)
    /\ dailySubscription' = <<[dailySubscription[1] EXCEPT !.state = "delivered"]>>
    /\ UNCHANGED <<chartFrame, dstDaily, envVars>>

\* the listener fails: onError is called, the listener is over
DailySnapshotError ==
    /\ dailySubscription # <<>> /\ dailySubscription[1].state = "pending"
    /\ dailySubscription' = <<[dailySubscription[1] EXCEPT !.state = "error"]>>
    /\ Fail
    /\ UNCHANGED <<chartFrame, dstDaily, chartReadings>>

\* the unsubscribe function subscribeToDailyReadings returned is called
UnsubscribeDaily ==
    /\ dailySubscription # <<>>
    /\ dailySubscription' = <<>>
    /\ UNCHANGED <<chartFrame, dstDaily, chartReadings, envVars>>

\* a reading is written under a device; a live listener on its collection
\* will be given a new snapshot
ReadingWritten ==
    /\ \E d \in DeviceIds, id \in ChartTimestamps :
          /\ id \notin DOMAIN dstDaily[d]
          /\ dstDaily' = [dstDaily EXCEPT ![d] =
                             [k \in DOMAIN @ \cup {id} |-> DailyDocument(k)]]
          /\ dailySubscription' =
                IF /\ dailySubscription # <<>>
                   /\ dailySubscription[1].item = d
                   /\ dailySubscription[1].state = "delivered"
                THEN <<[dailySubscription[1] EXCEPT !.state = "pending"]>>
                ELSE dailySubscription
    /\ UNCHANGED <<chartFrame, chartReadings, envVars>>

InitChart ==
    /\ InitMigration /\ InitAlertProcess /\ InitChartProcess /\ InitApps
    /\ srcUsers = EmptyMap /\ srcDevices = EmptyMap /\ srcReadings = EmptyMap
    /\ srcTelegram = Absent
    /\ keyOrder = UserIdKeyOrder /\ timestampOrder = TimestampKeyOrder
    /\ dstUsers = EmptyMap /\ dstDevices = EmptyMap
    /\ dstTelegram = <<>>
    /\ \E ids \in SUBSET ChartTimestamps :
          dstDaily = [d \in DeviceIds |->
                        IF d = "d1" THEN [k \in ids |-> DailyDocument(k)] ELSE EmptyMap]

NextChart ==
    \/ SubscribeToDailyReadings \/ DailySnapshot \/ DailySnapshotError
    \/ UnsubscribeDaily \/ ReadingWritten

SpecChart == InitChart /\ [][NextChart]_vars

(* ---------------------------------------------------------------------- *)
(* Properties                                                              *)
(* ---------------------------------------------------------------------- *)
NonEmptyIds(d) ==
    IF d \in DOMAIN srcReadings
    THEN {t \in 1..Len(srcReadings[d]) : ~IsEmptyReading(srcReadings[d][t])}
    ELSE {}

\* the commits of the current invocation for device d, in the order issued
RunCommits(d) == SelectSeq(commits, LAMBDA c : c.run = run /\ c.device = d)

FailedCommits == {i \in 1..Len(commits) : commits[i].run = run /\ ~commits[i].ok}

\* sizes of the groups of n writes: full groups, then the remainder
GroupSizes(n) ==
    [i \in 1..((n + BatchLimit - 1) \div BatchLimit) |->
        IF i <= n \div BatchLimit THEN BatchLimit ELSE n % BatchLimit]

DeviceReports(d) ==
    {i \in 1..Len(history) : /\ history[i].step = "readings.device"
                             /\ history[i].run = run
                             /\ history[i].device = d}

\* C1: when the run has ended without any rejected store call and the source
\* holds the readings of one device, N of them non-empty, the commits issued
\* for it have sizes 500, ..., 500, N mod 500 (ceil(N/500) commits), the
\* readings step returned, the count reported for the device is N and the
\* destination sub-collection holds N documents.
C1_BatchGrouping ==
    \A d \in DeviceIds :
        (pc = "exit" /\ runFailures = 0 /\ DOMAIN srcReadings = {d}) =>
            /\ readingsResult # <<>>
            /\ [i \in 1..Len(RunCommits(d)) |-> Len(RunCommits(d)[i].ids)]
                   = GroupSizes(Cardinality(NonEmptyIds(d)))
            /\ \E i \in DeviceReports(d) : history[i].count = Cardinality(NonEmptyIds(d))
            /\ Cardinality(DOMAIN dstDaily[d]) = Cardinality(NonEmptyIds(d))

\* C2: every commit issued so far, accepted or rejected, carries at most 500
\* writes.
C2_CommitCeiling ==
    \A i \in 1..Len(commits) : Len(commits[i].ids) <= BatchLimit

\* a commit of a full group issued right after a rejected commit of the same
\* device in the same invocation
C2_Witness ==
    \E i \in 2..Len(commits) :
        /\ ~commits[i - 1].ok
        /\ commits[i].run = commits[i - 1].run
        /\ commits[i].device = commits[i - 1].device
        /\ Len(commits[i].ids) = BatchLimit

\* C3: within one invocation no reading of a device is submitted in two
\* commits.
C3_NoResubmission ==
    \A i, j \in 1..Len(commits) :
        (i < j /\ commits[i].run = commits[j].run /\ commits[i].device = commits[j].device)
            => Range(commits[i].ids) \cap Range(commits[j].ids) = {}

\* C4: when the run has ended and the only rejected store calls were readings
\* commits (at least one), migrateDailyReadings returned with errorCount equal
\* to the number of rejected commits and every device processed, and the
\* Notification Registry step ran.
C4_CommitFailureIsolated ==
    (pc = "exit" /\ FailedCommits # {} /\ runFailures = Cardinality(FailedCommits)) =>
        /\ readingsResult # <<>>
        /\ readingsResult[1].errorCount = Cardinality(FailedCommits)
        /\ readingsResult[1].totalDevices = Len(ReadingKeys)
        /\ telegramResult # <<>>

\* C5: a run that has ended has exit code 0 or 1; it is 0 exactly when
\* validateMigration returned true, and 1 when it returned false or never
\* returned because an error escaped.
C5_ExitCode ==
    pc = "exit" =>
        /\ exitCode \in {0, 1}
        /\ exitCode = 0 <=> isValid = "passed"
        /\ isValid \in {"failed", "pending"} => exitCode = 1

\* a run that exits with 0 after an earlier run exited with 1
C5_Witness ==
    /\ pc = "exit" /\ exitCode = 0
    /\ \E i \in 1..Len(history) : history[i].step = "exit" /\ history[i].exitCode = 1

CountsMatch ==
    /\ Cardinality(DOMAIN srcUsers) = Cardinality(DOMAIN dstUsers)
    /\ Cardinality(DOMAIN srcDevices) = Cardinality(DOMAIN dstDevices)

\* C6: once validateMigration has returned, its result is true exactly when
\* the user counts and the device counts of the two stores are equal,
\* whatever the sample comparison gave; and the step of the Validator leaves
\* both stores as they were.
C6_Validity ==
    /\ [](report # <<>> => (isValid = "passed" <=> CountsMatch))
    /\ [][pc = "validate" => UNCHANGED <<srcVars, dstVars>>]_vars

\* validation passed although the sample reading counts differ
C6_Witness ==
    /\ report # <<>> /\ isValid = "passed"
    /\ ~SampleMatches(report[1])

LostCommits ==
    {i \in FailedCommits : Range(commits[i].ids) \ DOMAIN dstDaily[commits[i].device] # {}}

\* C8 (as stated): a run in which a readings commit was rejected and its
\* records are missing from the destination does not end with exit code 0.
C8_LossCaught ==
    (pc = "exit" /\ LostCommits # {}) => (exitCode # 0 /\ isValid # "passed")

\* C8 (amended): once the Validator has returned, records lost with a
\* rejected commit show as a mismatch of the reported sample reading counts
\* when they belong to the first enumerated source device, and the result of
\* the Validator is decided by the user and device counts alone.
C8_LossOnlyInSample ==
    report # <<>> =>
        /\ \A i \in LostCommits :
              (DeviceKeys # <<>> /\ commits[i].device = DeviceKeys[1])
                  => ~SampleMatches(report[1])
        /\ isValid = "passed" <=> CountsMatch

\* a run certified valid, ended with exit code 0, whose first device lost the
\* records of a rejected commit
C8_Witness ==
    /\ pc = "exit" /\ exitCode = 0
    /\ \E i \in LostCommits : DeviceKeys # <<>> /\ commits[i].device = DeviceKeys[1]
    /\ ~SampleMatches(report[1])

\* the returns of migrateDevices that had no rejected write
CleanDeviceRuns ==
    {i \in 1..Len(history) : history[i].step = "devices" /\ history[i].errorCount = 0}

DeviceFields == {"name", "isOn", "energyLimit", "last_updated", "user_ids"}

\* C9 (as stated): two runs of migrateDevices without a rejected write leave
\* identical destination device records and return the same counts.
C9_DevicesIdempotent ==
    \A i, j \in CleanDeviceRuns :
        /\ history[i].docs = history[j].docs
        /\ history[i].migratedCount = history[j].migratedCount

\* C9 (amended): the records agree on every field except last_updated of a
\* device whose source record has none, and the counts agree.
C9_DevicesIdempotentButServerTime ==
    \A i, j \in CleanDeviceRuns :
        /\ DOMAIN history[i].docs = DOMAIN history[j].docs
        /\ \A d \in DOMAIN history[i].docs : \A f \in DeviceFields :
              \/ f = "last_updated" /\ OrZero(srcDevices[d], "last_updated") = 0
              \/ history[i].docs[d][f] = history[j].docs[d][f]
        /\ history[i].migratedCount = history[j].migratedCount
        /\ history[i].errorCount = history[j].errorCount

\* two clean runs over a device with last_updated and a device without it
C9_Witness ==
    /\ \E i, j \in CleanDeviceRuns : history[i].run < history[j].run
                                     /\ history[i].docs # history[j].docs
    /\ \E d \in DOMAIN srcDevices : Has(srcDevices[d], "last_updated")
    /\ \E d \in DOMAIN srcDevices : ~Has(srcDevices[d], "last_updated")

\* what a failure-free migration of the source leaves in the destination
ExpectedUsers == [u \in DOMAIN srcUsers |-> TransformUser(srcUsers[u])]
ExpectedDaily ==
    [d \in DeviceIds |-> [t \in NonEmptyIds(d) |-> TransformReading(srcReadings[d][t])]]
ExpectedTelegram == <<[chats |-> SourceChats, last_update_id |-> SourceLastUpdateId]>>
DevicesAsExpected ==
    /\ DOMAIN dstDevices = DOMAIN srcDevices
    /\ \A d \in DOMAIN srcDevices : \A f \in DeviceFields :
          \/ f = "last_updated" /\ OrZero(srcDevices[d], "last_updated") = 0
          \/ dstDevices[d][f] = TransformDevice(srcDevices[d], now)[f]

\* C10: when a run without any rejected store call has ended and the run
\* before it had a rejected readings commit, the destination equals what a
\* failure-free migration produces and the exit code is 0.
C10_RerunSafe ==
    (/\ pc = "exit" /\ run > 1 /\ runFailures = 0
     /\ \E i \in 1..Len(commits) : commits[i].run = run - 1 /\ ~commits[i].ok)
        => /\ exitCode = 0
           /\ dstUsers = ExpectedUsers
           /\ DevicesAsExpected
           /\ dstDaily = ExpectedDaily
           /\ dstTelegram = ExpectedTelegram

(* ---------------------------------------------------------------------- *)
(* Per-record tallies of migrateUsers and migrateDevices                   *)
(* ---------------------------------------------------------------------- *)
\* the calls of one step in the log of the current invocation
StepCalls(step) == SelectSeq(io, LAMBDA c : c.step = step)
Writes(step, ok) == SelectSeq(io, LAMBDA c : c.step = step /\ c.op = "write" /\ c.ok = ok)

\* a returned tally accounts for every source record once, and splits them
\* into the writes the destination accepted and the ones it rejected
TallyExact(result, step, source) ==
    result # <<>> =>
        /\ result[1].migratedCount + result[1].errorCount = Cardinality(DOMAIN source)
        /\ result[1].migratedCount = Len(Writes(step, TRUE))
        /\ result[1].errorCount = Len(Writes(step, FALSE))
        /\ \A id \in DOMAIN source :
              \E i \in 1..Len(StepCalls(step)) :
                  /\ StepCalls(step)[i].op = "write"
                  /\ StepCalls(step)[i].path[2] = id

\* C11: in migrateUsers and migrateDevices a rejected write of one record
\* adds one to errorCount and nothing else: every source record is still
\* attempted; on return migratedCount + errorCount is the number of source
\* records and migratedCount is the number of accepted destination writes.
C11_RecordTally ==
    /\ TallyExact(usersResult, "users", srcUsers)
    /\ TallyExact(devicesResult, "devices", srcDevices)
    /\ (run = 1 /\ usersResult # <<>>
            => usersResult[1].migratedCount = Cardinality(DOMAIN dstUsers))
    /\ (run = 1 /\ devicesResult # <<>>
            => devicesResult[1].migratedCount = Cardinality(DOMAIN dstDevices))

\* the write of the first user was rejected, the second user was migrated
\* all the same, and the step returned 1 and 1
C11_Witness ==
    /\ usersResult = <<[migratedCount |-> 1, errorCount |-> 1]>>
    /\ run = 1
    /\ DOMAIN dstUsers = {"u2"}
    /\ ~Writes("users", FALSE)[1].ok
    /\ devicesResult # <<>>

(* ---------------------------------------------------------------------- *)
(* Order of the steps of migrate()                                         *)
(* ---------------------------------------------------------------------- *)
StepNames == <<"users", "devices", "readings", "telegram", "validate">>
StepRank(step) == CHOOSE k \in 1..Len(StepNames) : StepNames[k] = step

\* the step a position of the script belongs to; 6 after the Validator
PcRank(p) ==
    CASE p \in {"users.read", "users.loop"} -> 1
      [] p \in {"devices.read", "devices.loop"} -> 2
      [] p \in {"readings.read", "readings.device", "readings.loop", "readings.commit"} -> 3
      [] p = "telegram" -> 4
      [] p = "validate" -> 5
      [] OTHER -> 6

\* the results of the steps in front of step k have been returned
ReturnedBefore(k) ==
    /\ (k > 1 => usersResult # <<>>)
    /\ (k > 2 => devicesResult # <<>>)
    /\ (k > 3 => readingsResult # <<>>)
    /\ (k > 4 => telegramResult # <<>>)

\* C12: the steps run strictly in the order Users, Devices, Daily Readings,
\* Notification Registry, Validator: the store calls of an invocation are
\* issued in step order, each only after every earlier step has returned
\* its result, each destination collection is written during its own step
\* only, and the Validator reports only after all four migrators returned.
C12_StepOrder ==
    /\ [](\A i \in 1..Len(io) : \A j \in i..Len(io) :
            StepRank(io[i].step) <= StepRank(io[j].step))
    /\ [](\A i \in 1..Len(io) : ReturnedBefore(StepRank(io[i].step)))
    /\ [](pc # "exit" => ReturnedBefore(PcRank(pc)))
    /\ [](report # <<>> => ReturnedBefore(5))
    /\ [][/\ (io' # io /\ io' # <<>> =>
                 /\ Len(io') > Len(io)
                 /\ \A i \in (Len(io) + 1)..Len(io') : StepRank(io'[i].step) = PcRank(pc))
          /\ (dstUsers' # dstUsers => PcRank(pc) = 1)
          /\ (dstDevices' # dstDevices => PcRank(pc) = 2)
          /\ (dstDaily' # dstDaily => PcRank(pc) = 3)
          /\ (dstTelegram' # dstTelegram => PcRank(pc) = 4)
          /\ (pc' # pc /\ pc' # "exit" /\ pc # "exit" =>
                 PcRank(pc') \in {PcRank(pc), PcRank(pc) + 1})]_vars

\* a finished invocation in which every step called its stores
C12_Witness ==
    /\ report # <<>> /\ pc = "exit"
    /\ \A k \in 1..Len(StepNames) : StepCalls(StepNames[k]) # <<>>
    /\ dstUsers # EmptyMap /\ dstDevices # EmptyMap /\ dstTelegram # <<>>

(* ---------------------------------------------------------------------- *)
(* Field conversions of migrateDevices                                     *)
(* ---------------------------------------------------------------------- *)
\* C13: the user_ids of a migrated device is a sequence whose elements are
\* exactly the non-empty keys of the source user_ids map, without the empty
\* string and without a duplicate, whatever the order in which the source
\* enumerates the keys; a device without user_ids gets the empty sequence.
C13_UserIdsSet ==
    \A d \in DOMAIN dstDevices :
        LET ids == dstDevices[d]["user_ids"] IN
        /\ Range(ids) = SourceUserIds(srcDevices[d])
        /\ "" \notin Range(ids)
        /\ Len(ids) = Cardinality(Range(ids))
        /\ (~Has(srcDevices[d], "user_ids") => ids = <<>>)

\* the keys were enumerated as u2, "", u1 and the device was migrated with
\* u2 and u1, next to a device without user_ids
C13_Witness ==
    /\ keyOrder = <<"u2", "", "u1">>
    /\ DOMAIN dstDevices = {"d1", "d2"}
    /\ SourceUserIds(srcDevices["d2"]) = {"u1", "u2"}
    /\ dstDevices["d2"]["user_ids"] = <<"u2", "u1">>
    /\ dstDevices["d1"]["user_ids"] = <<>>

(* ---------------------------------------------------------------------- *)
(* Empty readings and absent fields in migrateDailyReadings                *)
(* ---------------------------------------------------------------------- *)
\* the source holds a reading of device d at timestamp t, with a field in it
HasFields(d, t) ==
    /\ d \in DOMAIN srcReadings
    /\ t \in 1..Len(srcReadings[d])
    /\ DOMAIN srcReadings[d][t] # {}

WithFields(d) == {t \in 1..RtdbReadingsCount(d) : HasFields(d, t)}

RECURSIVE CountWithFields(_)
CountWithFields(devices) ==
    IF devices = <<>> THEN 0
    ELSE Cardinality(WithFields(Head(devices))) + CountWithFields(Tail(devices))

\* C14: a source reading without any field is not written and is not an
\* error: no destination document exists for it, the count reported for its
\* device and totalReadings count the readings with fields only, and
\* errorCount counts rejected commits only; every numeric field a written
\* reading lacks in the source is 0 in the destination.  The documents are
\* compared whenever the script is not between two readings of a device.
C14_EmptyReadings ==
    /\ (pc # "readings.loop" =>
          \A d \in DeviceIds : \A t \in DOMAIN dstDaily[d] :
             /\ HasFields(d, t)
             /\ DOMAIN dstDaily[d][t] = ReadingFields
             /\ \A f \in ReadingFields :
                   dstDaily[d][t][f] = IF Has(srcReadings[d][t], f)
                                       THEN srcReadings[d][t][f] ELSE 0)
    /\ \A i \in 1..Len(history) :
          history[i].step = "readings.device" =>
              history[i].count = Cardinality(WithFields(history[i].device))
    /\ (readingsResult # <<>> =>
          /\ readingsResult[1].totalReadings = CountWithFields(ReadingKeys)
          /\ readingsResult[1].errorCount = Cardinality(FailedCommits))

\* device d1 has an empty reading between two readings that lack four of
\* the six fields; the step returned 3 readings for the two devices, no error
C14_Witness ==
    /\ readingsResult = <<[totalReadings |-> 3, totalDevices |-> 2, errorCount |-> 0]>>
    /\ Len(srcReadings["d1"]) = 3 /\ srcReadings["d1"][2] = EmptyReading
    /\ DOMAIN dstDaily["d1"] = {1, 3}
    /\ ~Has(srcReadings["d1"][1], "voltage") /\ dstDaily["d1"][1]["voltage"] = 0
    /\ dstDaily["d1"][3]["energy"] = 3

\* C15: a migrated device has isOn = true when the source has no isOn and
\* the source value otherwise (an explicit false stays false), and
\* energyLimit = 0 when the source has no energyLimit and the source value
\* otherwise.
C15_DeviceDefaults ==
    \A d \in DOMAIN dstDevices :
        /\ dstDevices[d]["isOn"] =
              IF Has(srcDevices[d], "isOn") THEN srcDevices[d]["isOn"] ELSE TRUE
        /\ dstDevices[d]["energyLimit"] =
              IF Has(srcDevices[d], "energyLimit") THEN srcDevices[d]["energyLimit"] ELSE 0

\* a device with isOn false and a limit of 1000 next to one with neither
C15_Witness ==
    /\ DOMAIN dstDevices = {"d1", "d2"}
    /\ Has(srcDevices["d2"], "isOn") /\ ~srcDevices["d2"]["isOn"]
    /\ dstDevices["d2"]["isOn"] = FALSE /\ dstDevices["d2"]["energyLimit"] = 1000
    /\ ~Has(srcDevices["d1"], "isOn") /\ ~Has(srcDevices["d1"], "energyLimit")
    /\ dstDevices["d1"]["isOn"] = TRUE /\ dstDevices["d1"]["energyLimit"] = 0

(* ---------------------------------------------------------------------- *)
(* migrateTelegramData                                                     *)
(* ---------------------------------------------------------------------- *)
Calls(step, store, op) ==
    SelectSeq(io, LAMBDA c : c.step = step /\ c.store = store /\ c.op = op)

\* C16: a call of migrateTelegramData that returns without error has made
\* exactly two source reads (the chat map and the last update id) and
\* exactly one destination write, of the document telegram/active_chats;
\* the document holds the source chat map (empty when the source has none)
\* as chats and the source scalar (0 when absent) as last_update_id, and
\* chatCount is the number of source chat entries.
C16_RegistryCopy ==
    (telegramResult # <<>> /\ ~telegramResult[1].error) =>
        /\ Len(Calls("telegram", "rtdb", "read")) = 2
        /\ Calls("telegram", "rtdb", "read")[1].path = <<"telegram", "active_chats">>
        /\ Calls("telegram", "rtdb", "read")[2].path = <<"telegram", "last_update_id">>
        /\ Len(Calls("telegram", "firestore", "write")) = 1
        /\ Calls("telegram", "firestore", "write")[1].path = <<"telegram", "active_chats">>
        /\ Len(StepCalls("telegram")) = 3
        /\ Len(dstTelegram) = 1
        /\ dstTelegram[1]["chats"] =
              (IF Has(srcTelegram, "active_chats") THEN srcTelegram["active_chats"]
               ELSE EmptyMap)
        /\ dstTelegram[1]["last_update_id"] =
              (IF Has(srcTelegram, "last_update_id") THEN srcTelegram["last_update_id"]
               ELSE 0)
        /\ telegramResult[1].chatCount = Cardinality(DOMAIN dstTelegram[1]["chats"])

\* a registry with an update id of 42 and no chat was copied
C16_Witness ==
    /\ telegramResult = <<[chatCount |-> 0, error |-> FALSE]>>
    /\ ~Has(srcTelegram, "active_chats")
    /\ Has(srcTelegram, "last_update_id")
    /\ dstTelegram = <<[chats |-> EmptyMap, last_update_id |-> 42]>>

RejectedCalls(step) == SelectSeq(io, LAMBDA c : c.step = step /\ ~c.ok)

\* C17: when a source read or the destination write of migrateTelegramData
\* is rejected, the function does not raise: it returns chatCount 0 with the
\* error, having made no call after the rejected one and none twice; the
\* Validator is run next, and when it reports, its result alone gives the
\* exit code.
C17_RegistryFailure ==
    RejectedCalls("telegram") # <<>> =>
        /\ telegramResult # <<>>
        /\ telegramResult[1].error /\ telegramResult[1].chatCount = 0
        /\ Len(RejectedCalls("telegram")) = 1
        /\ ~StepCalls("telegram")[Len(StepCalls("telegram"))].ok
        /\ \A i, j \in 1..Len(StepCalls("telegram")) :
              i # j => <<StepCalls("telegram")[i].store, StepCalls("telegram")[i].path>>
                       # <<StepCalls("telegram")[j].store, StepCalls("telegram")[j].path>>
        /\ pc \in {"validate", "summary", "exit"}
        /\ (pc = "exit" =>
              IF report # <<>>
              THEN /\ isValid = "passed" <=> CountsMatch
                   /\ exitCode = 0 <=> isValid = "passed"
              ELSE RejectedCalls("validate") # <<>> /\ exitCode = 1)

\* the write of the registry was rejected, nothing was written, and the
\* invocation still ended with a passed validation and exit code 0
C17_Witness ==
    /\ pc = "exit" /\ exitCode = 0 /\ isValid = "passed"
    /\ telegramResult = <<[chatCount |-> 0, error |-> TRUE]>>
    /\ Len(StepCalls("telegram")) = 3
    /\ ~StepCalls("telegram")[3].ok
    /\ dstTelegram = <<>>
    /\ Has(srcTelegram, "active_chats")

(* ---------------------------------------------------------------------- *)
(* The energy alert check                                                  *)
(* ---------------------------------------------------------------------- *)
\* the targets the alert of device d was sent to, in the order of the sends
SentTo(d) ==
    LET mine == SelectSeq(sends, LAMBDA m : m.device = d)
    IN  [i \in 1..Len(mine) |-> mine[i].chatId]

\* the three conditions on the stored data of device d
MeetsAlertConditions(d) ==
    /\ Has(srcDevices[d], "energyLimit") /\ srcDevices[d]["energyLimit"] # 0
    /\ d \in DOMAIN srcReadings /\ srcReadings[d] # <<>>
    /\ LET latest == srcReadings[d][Len(srcReadings[d])] IN
         Has(latest, "energy") /\ latest["energy"] > srcDevices[d]["energyLimit"]

\* C18: a device produces alerts in a cycle if and only if its energyLimit
\* is non-zero, it has a reading, and the energy of its latest reading is
\* strictly above the limit.  No alert is ever sent for a device that does
\* not meet the three conditions (limit 0; 999.99 against 1000.00); every
\* alert reports energy - limit as its overage (250.50 for 1250.50 against
\* 1000.00); and a device whose iteration has ended with its readings
\* request answered has alerts, one per target, exactly when it meets them.
C18_AlertDecision ==
    /\ \A i \in 1..Len(sends) :
          /\ MeetsAlertConditions(sends[i].device)
          /\ sends[i].overBy =
                ToFixed2(srcReadings[sends[i].device][Len(srcReadings[sends[i].device])]["energy"]
                         - srcDevices[sends[i].device]["energyLimit"])
          /\ (sends[i].current = <<1250, 50>> /\ sends[i].limit = <<1000, 0>>
                 => sends[i].overBy = <<250, 50>>)
    /\ \A i \in 1..Len(outcomes) :
          outcomes[i].outcome # "readings request failed" =>
              /\ SentTo(outcomes[i].device) # <<>> <=> MeetsAlertConditions(outcomes[i].device)
              /\ (MeetsAlertConditions(outcomes[i].device) /\ Len(chatIds) = 1
                     => Len(SentTo(outcomes[i].device)) = 1)

\* C19: for every device found over its limit in a cycle, once its
\* iteration has ended every registered target has been sent its alert
\* exactly once, in the order of the targets, whether the request for the
\* custom name was answered or rejected.
C19_Broadcast ==
    \A i \in 1..Len(outcomes) :
        outcomes[i].outcome \in {"alerted", "name request failed"} =>
            SentTo(outcomes[i].device) = chatIds

\* C20: a send that fails or is refused stops neither the sends to the
\* remaining targets of the device nor the remaining devices: a device
\* whose iteration has ended with a send has one send per target, no
\* target is tried twice for a device, alertsSent is the number of accepted
\* sends, and a cycle that sent anything ends with exit code 0 after
\* visiting every device, also when every send failed.
C20_SendFailures ==
    /\ alertsSent = Cardinality({i \in 1..Len(sends) : sends[i].accepted})
    /\ \A i \in 1..Len(outcomes) :
          SentTo(outcomes[i].device) # <<>> => SentTo(outcomes[i].device) = chatIds
    /\ \A i, j \in 1..Len(sends) :
          i # j => <<sends[i].device, sends[i].chatId>> # <<sends[j].device, sends[j].chatId>>
    /\ (apc = "exit" /\ sends # <<>> =>
          /\ alertExit = 0
          /\ Len(outcomes) = Len(DeviceKeys)
          /\ devicesChecked = Len(DeviceKeys))

\* two devices over their limits, two targets, all four sends refused: the
\* cycle ended with exit code 0 and alertsSent = 0
C20_Witness ==
    /\ apc = "exit" /\ alertExit = 0
    /\ Len(sends) = 4 /\ Len(chatIds) = 2
    /\ \A i \in 1..Len(sends) : ~sends[i].accepted
    /\ alertsSent = 0 /\ devicesOverLimit = 2

\* the checks that have finished, the running one included once it exited
FinishedCycles == cycles \o (IF apc = "exit" THEN <<CycleRecord>> ELSE <<>>)

\* every request of the check for stored data was answered
Undisturbed(c) ==
    /\ c.exit = 0
    /\ \A i \in 1..Len(c.outcomes) :
          c.outcomes[i].outcome \notin {"readings request failed", "name request failed"}

\* the targets device d was tried on in a finished check
TriedIn(c, d) ==
    LET mine == SelectSeq(c.attempts, LAMBDA m : m.device = d)
    IN  [i \in 1..Len(mine) |-> mine[i].chatId]

\* C21: the check keeps nothing from one cycle to the next and writes to no
\* store: no step changes the Realtime Database or Firestore, and any two
\* cycles on the same data whose requests were all answered make the same
\* send attempts in the same order, every device over its limit being sent
\* to every registered target again in each of them.
C21_NoMemory ==
    /\ [](\A i, j \in 1..Len(FinishedCycles) :
            Undisturbed(FinishedCycles[i]) /\ Undisturbed(FinishedCycles[j]) =>
                /\ FinishedCycles[i].attempts = FinishedCycles[j].attempts
                /\ \A d \in DOMAIN srcDevices :
                      (MeetsAlertConditions(d) /\ Has(srcTelegram, "active_chats")) =>
                          Len(TriedIn(FinishedCycles[i], d))
                             = Cardinality(DOMAIN srcTelegram["active_chats"]))
    /\ [][/\ srcUsers' = srcUsers /\ srcDevices' = srcDevices
          /\ srcReadings' = srcReadings /\ srcTelegram' = srcTelegram
          /\ dstUsers' = dstUsers /\ dstDevices' = dstDevices
          /\ dstDaily' = dstDaily /\ dstTelegram' = dstTelegram]_vars

\* two cycles have finished, each with the same four send attempts: two
\* devices over their limits, two targets
C21_Witness ==
    /\ apc = "exit" /\ Len(cycles) = 1
    /\ Undisturbed(cycles[1]) /\ Undisturbed(CycleRecord)
    /\ Len(cycles[1].attempts) = 4
    /\ CycleRecord.attempts = cycles[1].attempts

\* the numerically greatest timestamp among the readings of device d
GreatestTimestamp(d) ==
    CHOOSE t \in DOMAIN srcReadings[d] : \A u \in DOMAIN srcReadings[d] : u <= t

NewestReading(d) == srcReadings[d][GreatestTimestamp(d)]

\* C22: for a device with a non-zero limit the reading compared with the
\* limit is the one under the numerically greatest timestamp, in whatever
\* order the store enumerates the timestamps: the outcome of the device and
\* the energy its alerts report are those of that reading.  A device with
\* no readings is passed over: no alert for it, and the cycle goes on to
\* its end with exit code 0.
C22_LatestReading ==
    /\ \A i \in 1..Len(outcomes) :
          LET d == outcomes[i].device
              o == outcomes[i].outcome
          IN  /\ (o = "within limit" =>
                     /\ srcReadings[d] # <<>> /\ Has(NewestReading(d), "energy")
                     /\ NewestReading(d)["energy"] <= srcDevices[d]["energyLimit"])
              /\ (o \in {"alerted", "name request failed"} =>
                     /\ srcReadings[d] # <<>> /\ Has(NewestReading(d), "energy")
                     /\ NewestReading(d)["energy"] > srcDevices[d]["energyLimit"])
              /\ (o = "reading unreadable" =>
                     srcReadings[d] # <<>> /\ ~Has(NewestReading(d), "energy"))
              /\ (srcReadings[d] = <<>> /\ o \notin {"no limit", "readings request failed"} =>
                     o = "no readings")
              /\ (o = "no readings" =>
                     /\ srcReadings[d] = <<>>
                     /\ SentTo(d) = <<>>
                     /\ alertExit # 1)
    /\ \A i \in 1..Len(sends) :
          sends[i].current = ToFixed2(NewestReading(sends[i].device)["energy"])
    /\ (apc \in {"name", "send"} => latestReading = <<NewestReading(AlertDeviceId)>>)

\* the store enumerates timestamp 2 first and 3 second: the first device
\* was alerted on the energy of the reading at 3, the second one has no
\* readings and was passed over, and the cycle ended with exit code 0
C22_Witness ==
    /\ apc = "exit" /\ alertExit = 0
    /\ timestampOrder = <<2, 3, 1>>
    /\ Len(srcReadings["d1"]) = 3
    /\ Len(outcomes) = 2
    /\ outcomes[1].outcome = "alerted" /\ outcomes[2].outcome = "no readings"
    /\ sends # <<>>
    /\ \A i \in 1..Len(sends) : sends[i].current = <<1250, 50>>

\* the name the alert of device d is to carry
ExpectedName(d) ==
    LET users == IF Has(srcDevices[d], "user_ids")
                 THEN ObjectKeys(srcDevices[d]["user_ids"], keyOrder) ELSE <<>>
        named == /\ users # <<>>
                 /\ users[1] \in DOMAIN srcUsers
                 /\ Has(srcUsers[users[1]], "devices")
                 /\ d \in DOMAIN srcUsers[users[1]]["devices"]
                 /\ srcUsers[users[1]]["devices"][d] # ""
    IN  IF named THEN srcUsers[users[1]]["devices"][d] ELSE srcDevices[d]["name"]

\* C23: every alert names the device by the custom name stored under the
\* device id in the devices map of the first user the device enumerates,
\* when that name is there and not empty; with no user on the device, no
\* record of that user, or no name in it, by the name stored on the device.
C23_DisplayName ==
    /\ \A i \in 1..Len(sends) : sends[i].deviceName = ExpectedName(sends[i].device)
    /\ (apc = "send" => deviceDisplayName = ExpectedName(AlertDeviceId))

\* the device lists u2 in front of u1, both named it: the alert carries
\* the name u2 gave; the other device has no user and carries its own name
C23_Witness ==
    /\ "d1" \in DOMAIN srcDevices
    /\ SourceUserIds(srcDevices["d1"]) = {"u1", "u2"}
    /\ keyOrder = <<"", "u2", "u1">>
    /\ \E i \in 1..Len(sends) : sends[i].device = "d1" /\ sends[i].deviceName = "Fan"
    /\ \E i \in 1..Len(sends) : sends[i].device = "d2" /\ sends[i].deviceName = "plug"

(* ---------------------------------------------------------------------- *)
(* The source store during a migration                                     *)
(* ---------------------------------------------------------------------- *)
\* C28: a run of the migration never writes to the Realtime Database:
\* no step changes the users, devices, readings or telegram node, and
\* every call the run makes on that store is a read, whatever writes and
\* commits the destination rejects.
C28_SourceReadOnly ==
    /\ [][/\ srcUsers' = srcUsers /\ srcDevices' = srcDevices
          /\ srcReadings' = srcReadings /\ srcTelegram' = srcTelegram]_vars
    /\ [](\A i \in 1..Len(io) : io[i].store = "rtdb" => io[i].op = "read")

\* a run has ended in which the destination rejected a write or a commit
\* and accepted others
C28_Witness ==
    /\ pc = "exit"
    /\ \E i \in 1..Len(io) : io[i].store = "firestore" /\ io[i].op # "read" /\ ~io[i].ok
    /\ \E i \in 1..Len(io) : io[i].store = "firestore" /\ io[i].op # "read" /\ io[i].ok
    /\ \E i \in 1..Len(io) : io[i].store = "rtdb"

(* ---------------------------------------------------------------------- *)
(* Chat discovery                                                          *)
(* ---------------------------------------------------------------------- *)
\* the greatest update id of the batch
GreatestUpdateId ==
    CHOOSE m \in {updates[i].update_id : i \in 1..Len(updates)} :
        \A i \in 1..Len(updates) : updates[i].update_id <= m

\* C24: in one poll the cursor is written at most once, and only behind
\* the last update of the batch; a poll that ended normally on a batch
\* leaves the cursor at the greater of its previous value and the greatest
\* update id of the batch; and from poll to poll the stored cursor never
\* goes down.
C24_Cursor ==
    /\ [](/\ Len(cursorWrites) <= 1
          /\ \A i \in 1..Len(cursorWrites) : cursorWrites[i].processed = Len(updates)
          /\ (dpc = "exit" /\ discExit = 0 /\ updates # <<>> =>
                 StoredCursor(srcTelegram)
                    = IF GreatestUpdateId > lastUpdateId THEN GreatestUpdateId
                      ELSE lastUpdateId))
    /\ [][StoredCursor(srcTelegram') >= StoredCursor(srcTelegram)]_vars

\* a second poll has ended on a batch whose greater id came first: the
\* cursor stands at that id, above the cursor the first poll left
C24_Witness ==
    /\ run = 2 /\ dpc = "exit" /\ discExit = 0
    /\ Len(updates) = 2 /\ updates[1].update_id > updates[2].update_id
    /\ lastUpdateId > 42
    /\ StoredCursor(srcTelegram) = updates[1].update_id
    /\ Len(cursorWrites) = 1

\* the entries of the registry
StoredChats(telegram) ==
    IF Has(telegram, "active_chats") THEN telegram["active_chats"] ELSE EmptyMap

\* the update carries a message, and the message is of a private chat
FromPrivateChat(update) ==
    /\ "message" \in DOMAIN update
    /\ update["message"]["chat"]["type"] = "private"

\* C25: a poll enters or refreshes a chat only while it handles an update
\* with a message of a private chat, and then the chat of that update; the
\* step over any other update changes no entry and sends no welcome; every
\* welcome went to the chat of such an update; and a poll that ended
\* normally left the cursor at or above the id of every update of the
\* batch, the passed-over ones included.
C25_PrivateOnly ==
    /\ [][/\ (StoredChats(srcTelegram') # StoredChats(srcTelegram) =>
                /\ dpc = "update" /\ uIdx < Len(updates)
                /\ FromPrivateChat(CurUpdate)
                /\ \A k \in DOMAIN StoredChats(srcTelegram') :
                      k # ChatKey(CurUpdate["message"]["chat"]["id"]) =>
                          /\ k \in DOMAIN StoredChats(srcTelegram)
                          /\ StoredChats(srcTelegram')[k] = StoredChats(srcTelegram)[k])
          /\ (dpc = "update" /\ uIdx < Len(updates) /\ ~FromPrivateChat(CurUpdate) =>
                /\ StoredChats(srcTelegram') = StoredChats(srcTelegram)
                /\ welcomes' = welcomes
                /\ dpc' # "welcome")]_vars
    /\ [](/\ \A i \in 1..Len(welcomes) :
                /\ FromPrivateChat(updates[welcomes[i].update])
                /\ welcomes[i].chatId = updates[welcomes[i].update]["message"]["chat"]["id"]
          /\ (dpc = "exit" /\ discExit = 0 =>
                \A i \in 1..Len(updates) :
                    StoredCursor(srcTelegram) >= updates[i].update_id))

\* a poll on an empty registry has ended: its first update was a message of
\* a group, its second one carried no message; no chat was entered, nobody
\* was welcomed, and the cursor stands at the id of the second update
C25_Witness ==
    /\ dpc = "exit" /\ discExit = 0 /\ run = 1
    /\ Len(updates) = 2
    /\ Has(updates[1], "message") /\ updates[1]["message"]["chat"]["type"] = "group"
    /\ ~Has(updates[2], "message")
    /\ updates[2].update_id > updates[1].update_id
    /\ StoredChats(srcTelegram) = EmptyMap
    /\ welcomes = <<>>
    /\ StoredCursor(srcTelegram) = updates[2].update_id

\* C26: the entry of every chat that was contacted carries the time of its
\* first contact as addedAt and the time of its latest contact as
\* lastActive.
C26_AddedAtKept ==
    \A k \in DOMAIN contacts :
        k \in DOMAIN StoredChats(srcTelegram) =>
            /\ StoredChats(srcTelegram)[k]["addedAt"] = contacts[k].first
            /\ StoredChats(srcTelegram)[k]["lastActive"] = contacts[k].last

(* ---------------------------------------------------------------------- *)
(* The device service                                                      *)
(* ---------------------------------------------------------------------- *)
\* C27: in every state, between the two writes of a call and after a
\* rejected write included, every user id in the user_ids of a device is
\* the id of a user whose devices map has the device.
C27_Membership ==
    \A d \in DOMAIN dstDevices :
        \A i \in 1..Len(dstDevices[d]["user_ids"]) :
            LET u == dstDevices[d]["user_ids"][i] IN
                /\ u \in DOMAIN dstUsers
                /\ "devices" \in DOMAIN dstUsers[u]
                /\ d \in DOMAIN dstUsers[u]["devices"]

(* ---------------------------------------------------------------------- *)
(* The Firestore registry under concurrent calls                           *)
(* ---------------------------------------------------------------------- *)
\* last_update_id of the document, 0 while there is none
RegistryCursor(document) == IF document = <<>> THEN 0 ELSE document[1]["last_update_id"]

\* C29: however the reads and writes of concurrent saveActiveChatId and
\* setLastUpdateId calls interleave, the chat of every saveActiveChatId
\* call that has completed is in chats, and no write of a saveActiveChatId
\* call lowers last_update_id.
C29_NoLostUpdate ==
    /\ [](\A i \in 1..Len(regCalls) :
            (regCalls[i].op = "saveActiveChatId" /\ regCalls[i].step = "done") =>
                /\ dstTelegram # <<>>
                /\ ChatKey(regCalls[i].arg) \in DOMAIN dstTelegram[1]["chats"])
    /\ [][(\E i \in 1..Len(regCalls) :
              /\ regCalls[i].op = "saveActiveChatId"
              /\ regCalls[i].step = "write" /\ regCalls'[i].step = "done") =>
             RegistryCursor(dstTelegram') >= RegistryCursor(dstTelegram)]_vars

(* ---------------------------------------------------------------------- *)
(* The cache of useDevices                                                 *)
(* ---------------------------------------------------------------------- *)
\* C30: the cleanup that takes subscriberCount back to 0 leaves no
\* subscription open, deviceMetadataSubscriptions empty and cachedDevices
\* null, whether it is the cleanup of a component that subscribed or of one
\* that reused the cache.
C30_LastUnmount ==
    [][(subscriberCount > 0 /\ subscriberCount' = 0) =>
          /\ liveSubs' = {}
          /\ activeDeviceSubscription' = <<>>
          /\ DOMAIN deviceMetadataSubscriptions' = {}
          /\ cachedDevices' = <<>>]_vars

\* the subscriptions to the user's devices that are open
LiveUserSubscriptions == {sub \in liveSubs : sub.kind = "user"}

\* C31: in every state at most one subscription to the user's devices is
\* open, and the open ones are exactly what activeDeviceSubscription holds:
\* a component that mounts while one is open opens no other, also when it
\* mounts before the first snapshot has filled cachedDevices.
C31_SingleSubscription ==
    /\ Cardinality(LiveUserSubscriptions) <= 1
    /\ LiveUserSubscriptions = Range(activeDeviceSubscription)

(* ---------------------------------------------------------------------- *)
(* The readings tally                                                      *)
(* ---------------------------------------------------------------------- *)
\* the timestamps of the device's readings that an accepted commit of this
\* run carried
CommittedIds(deviceId) ==
    UNION {Range(commits[i].ids) :
              i \in {j \in 1..Len(commits) : /\ commits[j].run = run
                                             /\ commits[j].ok
                                             /\ commits[j].device = deviceId}}

RECURSIVE CountCommitted(_)
CountCommitted(devices) ==
    IF devices = <<>> THEN 0
    ELSE Cardinality(CommittedIds(Head(devices))) + CountCommitted(Tail(devices))

\* C32: the totalReadings that migrateDailyReadings returns is at most the
\* number of reading documents that the accepted commits of the run carried:
\* the readings of a rejected commit are not counted as migrated.
C32_MigratedAreCommitted ==
    readingsResult # <<>> =>
        readingsResult[1].totalReadings <= CountCommitted(ReadingKeys)

(* ---------------------------------------------------------------------- *)
(* Discovery over several polls                                            *)
(* ---------------------------------------------------------------------- *)
\* the updates whose chat could not be saved and that no poll has saved since
UnsavedUpdates ==
    {h.update : h \in {g \in handled :
        /\ g.outcome = "save failed"
        /\ ~\E later \in handled :
              /\ later.update = g.update
              /\ later.outcome \in {"welcomed", "welcome refused"}}}

\* C33: the stored cursor stays below the id of every update of a private
\* chat whose save failed and has not succeeded since, so that a later poll
\* is given the update again.
C33_FailedSaveKept ==
    \A update \in UnsavedUpdates : StoredCursor(srcTelegram) < update.update_id

\* the welcomes sent over all polls
Welcomed == {h \in handled : h.outcome = "welcomed"}

\* C34: every batch a poll is given holds only updates above the stored
\* cursor, and over all polls no update has led to two welcomes.
C34_NoReprocessing ==
    /\ [][(dpc = "poll" /\ dpc' = "update") =>
             \A j \in 1..Len(updates') :
                 updates'[j].update_id > StoredCursor(srcTelegram)]_vars
    /\ [](\A g, h \in Welcomed : g.update = h.update => g = h)

(* ---------------------------------------------------------------------- *)
(* The Firestore registry, one call at a time                              *)
(* ---------------------------------------------------------------------- *)
\* call i is the latest call and every other call has ended, and the
\* document is as call i read it
CalledAlone(i) ==
    /\ i = Len(regCalls)
    /\ \A j \in 1..Len(regCalls) : j # i => regCalls[j].step \in {"done", "failed"}
    /\ regCalls[i].exists = (dstTelegram # <<>>)

\* the content of the registry document, of no document: no chat, cursor 0
RegistryContent(document) ==
    IF document = <<>> THEN [chats |-> EmptyMap, last_update_id |-> 0] ELSE document[1]

\* C35: the write of a saveActiveChatId(c) call that ran alone leaves a
\* document in which chats[c] is the entry of c at the time of the call,
\* every other chat entry and last_update_id are as before (no other chat
\* and 0 when there was no document); the write of a setLastUpdateId(u) call
\* that ran alone leaves a document with last_update_id = u and chats as
\* before (empty when there was no document).
C35_SequentialFrame ==
    [][\A i \in 1..Len(regCalls) :
          (regCalls[i].step = "write" /\ regCalls'[i].step = "done" /\ CalledAlone(i)) =>
              LET before == RegistryContent(dstTelegram)
                  after == RegistryContent(dstTelegram')
                  key == ChatKey(regCalls[i].arg)
              IN  /\ dstTelegram' # <<>>
                  /\ regCalls[i].op = "saveActiveChatId" =>
                        /\ after.last_update_id = before.last_update_id
                        /\ DOMAIN after.chats = DOMAIN before.chats \cup {key}
                        /\ \A k \in DOMAIN before.chats \ {key} :
                              after.chats[k] = before.chats[k]
                        /\ after.chats[key].chatId = regCalls[i].arg
                        /\ after.chats[key].lastActive = now
                  /\ regCalls[i].op = "setLastUpdateId" =>
                        /\ after.last_update_id = regCalls[i].arg
                        /\ after.chats = before.chats]_vars

\* the only call so far, saveActiveChatId(-202), has ended: the chat was
\* added next to the chat the document held, whose entry and the cursor 42
\* are as they were
C35_Witness ==
    /\ Len(regCalls) = 1
    /\ regCalls[1].op = "saveActiveChatId" /\ regCalls[1].arg = -202
    /\ regCalls[1].step = "done"
    /\ dstTelegram # <<>>
    /\ DOMAIN dstTelegram[1]["chats"] = {"101", "-202"}
    /\ dstTelegram[1]["chats"]["101"] = KnownChat
    /\ dstTelegram[1]["last_update_id"] = 42

(* ---------------------------------------------------------------------- *)
(* addDevice                                                               *)
(* ---------------------------------------------------------------------- *)
\* how often the user id occurs in the device's user_ids
Occurrences(item, userId) ==
    Cardinality({i \in 1..Len(item["user_ids"]) : item["user_ids"][i] = userId})

\* C37: the step of addDevice that checks a device without item-data
\* document ends the call without any write, with the error 'Device ID does
\* not exist' when the read was answered; and the step of addDevice that
\* returns after both writes leaves the user's devices mapping itemId to
\* the name and the device's user_ids with the user id exactly once.
C37_AddDevice ==
    [][/\ (/\ svcCall # <<>> /\ svcCall[1].op = "addDevice"
           /\ svcCall[1].step = "check"
           /\ svcCall[1].itemId \notin DOMAIN dstDevices) =>
              /\ svcCall' = <<>>
              /\ dstUsers' = dstUsers /\ dstDevices' = dstDevices
              /\ failures' = failures =>
                    svcLog'[1].outcome = "Device ID does not exist"
       /\ (/\ svcCall # <<>> /\ svcCall[1].op = "addDevice"
           /\ svcCall' = <<>> /\ svcLog'[1].outcome = "ok") =>
              /\ dstUsers'[svcCall[1].userId]["devices"][svcCall[1].itemId]
                    = svcCall[1].customName
              /\ Occurrences(dstDevices'[svcCall[1].itemId], svcCall[1].userId) = 1]_vars

\* addDevice('u1', 'd1', 'Fan') has returned without error: the user's
\* devices map d1 to 'Fan' and u1 is listed once in the device's user_ids
C37_Witness ==
    /\ svcCall = <<>>
    /\ svcLog = <<[op |-> "addDevice", userId |-> "u1", itemId |-> "d1",
                   step |-> "item", outcome |-> "ok"]>>
    /\ dstUsers["u1"]["devices"]["d1"] = "Fan"
    /\ dstDevices["d1"]["user_ids"] = <<"u1">>

(* ---------------------------------------------------------------------- *)
(* The dual writes of useDevices                                           *)
(* ---------------------------------------------------------------------- *)
\* isOn and energyLimit of every device are the same in both stores
StoresAgree ==
    \A d \in DOMAIN dstDevices :
        /\ d \in DOMAIN srcDevices
        /\ dstDevices[d]["isOn"] = srcDevices[d]["isOn"]
        /\ dstDevices[d]["energyLimit"] = srcDevices[d]["energyLimit"]

\* C36: whenever no toggleDevice or setEnergyLimit call is in progress the
\* two stores agree on isOn and energyLimit of every device, also after a
\* call one of whose writes was rejected; and a cached isOn changes only in
\* the step in which a toggleDevice call returns after both writes.
C36_DualWrites ==
    /\ [](svcCall = <<>> => StoresAgree)
    /\ [][(/\ cachedDevices # <<>> /\ cachedDevices' # <<>>
            /\ \E i \in 1..Len(cachedDevices[1]) :
                  cachedDevices'[1][i].isOn # cachedDevices[1][i].isOn) =>
              /\ svcCall # <<>> /\ svcCall[1].op = "toggleDevice"
              /\ svcCall' = <<>> /\ svcLog'[1].outcome = "ok"]_vars

(* ---------------------------------------------------------------------- *)
(* Removal of inactive chats                                               *)
(* ---------------------------------------------------------------------- *)
\* C38: the write of a removeInactiveChats call takes exactly the chats it
\* found inactive out of chats, leaves the other entries and last_update_id
\* as they were, and the call returns their number; and no later
\* getAllActiveChatIds returns the id of a chat that a call removed.
C38_RemoveInactive ==
    /\ [][\A i \in 1..Len(regCalls) :
              (/\ regCalls[i].op = "removeInactiveChats"
               /\ regCalls[i].step = "write" /\ regCalls'[i].step = "done"
               /\ failures' = failures) =>
                  /\ DOMAIN dstTelegram'[1]["chats"] =
                        DOMAIN dstTelegram[1]["chats"] \ regCalls[i].updates
                  /\ \A k \in DOMAIN dstTelegram'[1]["chats"] :
                        dstTelegram'[1]["chats"][k] = dstTelegram[1]["chats"][k]
                  /\ dstTelegram'[1]["last_update_id"] = dstTelegram[1]["last_update_id"]
                  /\ regCalls'[i].result = Cardinality(regCalls[i].updates)]_vars
    /\ [](\A i, j \in 1..Len(regCalls) :
            (/\ j < i
             /\ regCalls[j].op = "removeInactiveChats" /\ regCalls[j].step = "done"
             /\ regCalls[i].op = "getAllActiveChatIds") =>
                \A k \in regCalls[j].updates : ParseInt(k) \notin Range(regCalls[i].result))

(* ---------------------------------------------------------------------- *)
(* Daily readings of a chart                                               *)
(* ---------------------------------------------------------------------- *)
\* the timestamp a document id stands for
RECURSIVE TimestampOf(_)
TimestampOf(id) ==
    IF id = <<>> THEN 0 ELSE 10 * TimestampOf(SubSeq(id, 1, Len(id) - 1)) + id[Len(id)]

\* the collection the live subscription listens on
SubscribedDaily == dstDaily[dailySubscription[1].item]

\* the ids of the n most recent readings of a collection, all when it holds fewer
MostRecent(collection, n) ==
    {id \in DOMAIN collection :
        Cardinality({other \in DOMAIN collection :
                        TimestampOf(other) > TimestampOf(id)}) < n}

\* C39: what a snapshot delivered to onUpdate is at most maxResults readings,
\* namely the readings of the device's daily sub-collection with the
\* maxResults most recent timestamps (all readings when there are fewer),
\* each with its id and its data, from the oldest to the newest.
C39_MostRecentReadings ==
    (dailySubscription # <<>> /\ dailySubscription[1].state = "delivered") =>
        /\ Len(chartReadings) <= dailySubscription[1].maxResults
        /\ {chartReadings[i].id : i \in 1..Len(chartReadings)} =
              MostRecent(SubscribedDaily, dailySubscription[1].maxResults)
        /\ \A i \in 1..Len(chartReadings) :
              /\ chartReadings[i].id \in DOMAIN SubscribedDaily
              /\ \A f \in DOMAIN SubscribedDaily[chartReadings[i].id] :
                    chartReadings[i][f] = SubscribedDaily[chartReadings[i].id][f]
        /\ \A i, j \in 1..Len(chartReadings) :
              i < j => TimestampOf(chartReadings[i].id) < TimestampOf(chartReadings[j].id)

\* a snapshot of a collection of four readings was delivered to a
\* subscription with maxResults 2, as two readings
C39_Witness ==
    /\ dailySubscription # <<>> /\ dailySubscription[1].state = "delivered"
    /\ dailySubscription[1].maxResults = 2
    /\ Cardinality(DOMAIN SubscribedDaily) = 4
    /\ Len(chartReadings) = 2

====
